---- MODULE Spec2Model ----
(***************************************************************************)
(* Video manager (src/src/service/video-manager-impl.js, second variant,   *)
(* lines 1330-2928): registration, playback events, visibility tracking,   *)
(* scroll-bound docking and the drag loop of the docked video.             *)
(*                                                                         *)
(* Units.  Lengths are CSS pixels.  Scale factors and the friction         *)
(* coefficient are kept in hundredths (DOCK_SCALE 0.6 is 60); an           *)
(* intersection ratio r is kept as the integer r*100.                      *)
(*                                                                         *)
(* Scheduling.  Event handlers run one at a time.  vsync tasks queued by   *)
(* a handler run in the next animation frame, which is one handler: it     *)
(* runs the measure step of every queued task, then the mutate step of     *)
(* every queued task, each step isolated from the errors of the others;    *)
(* tasks queued meanwhile wait for the following frame.  Continuations of  *)
(* resolved promises (microtasks) run when the current handler or frame    *)
(* has returned and before any other event.                                *)
(***************************************************************************)
EXTENDS Integers, Sequences, FiniteSets, TLC

\* ------------------------------------------------------------------ bounds
MaxTasks == 3
MaxTouches == 1

\* ------------------------------------------------------- program constants
VISIBILITY_PERCENT == 75
DOCK_SCALE == 60
DOCK_MARGIN == 20
FRICTION_COEFF == 55
STOP_THRESHOLD == 3

\* -------------------------------------------------------- the environment
\* The document: an interactive autoplay video that docks ("a"), two plain
\* videos that dock ("b", "c") and one whose platform is unsupported ("u").
Videos == {"a", "b", "c", "t", "u", "r"}
Null == "null"

ViewportWidth == 800
ViewportHeight == 800
ScrollHeight == 3000

\* Attributes of the video elements (fixed when the page is authored).
HasDockAttr(v) == v \in {"a", "b", "c", "t", "r"}
HasAutoplayAttr(v) == v = "a"
SupportsPlatform(v) == v # "u"
IsInteractive(v) == v = "a"
SupportsAnalytics(v) == FALSE
LiteMode == FALSE          \* getMode(win).lite
\* The dir attribute of the document the video is in ("r" is on an RTL page)
PageDir(v) == IF v = "r" THEN "rtl" ELSE "ltr"

\* Layout of the video elements in the document.
VideoWidth == 400
VideoHeight == 200
VideoLeft == 200
OffsetTop(v) == IF v = "c" THEN 500 ELSE 1000
\* "t" is taller than the viewport
TallHeight == 1000
OffsetHeight(v) == IF v = "t" THEN TallHeight ELSE VideoHeight

NullRect == [null |-> TRUE, left |-> 0, top |-> 0, width |-> 0, height |-> 0]

\* layoutRectLtwh(left, top, width, height)
layoutRectLtwh(l, t, w, h) ==
  [null |-> FALSE, left |-> l, top |-> t, width |-> w, height |-> h]

RectBottom(r) == r.top + r.height

\* element.getBoundingClientRect() of the video element: its size is fixed by
\* the layout; only that size is read from the initial rectangle.
BoundingClientRect(v) == layoutRectLtwh(VideoLeft, 0, VideoWidth, OffsetHeight(v))

\* What the position observer delivers: the intersecting rectangle (null when
\* the element is out of the viewport), the viewport rectangle and the side.
ViewportRect == layoutRectLtwh(0, 0, ViewportWidth, ViewportHeight)

PosEntry(rect, rel) ==
  [null |-> FALSE, positionRect |-> rect, relativePos |-> rel]

NoPosition == [null |-> TRUE, positionRect |-> NullRect, relativePos |-> "inside"]

PosInputs ==
  { PosEntry(NullRect, "top"),
    PosEntry(NullRect, "bottom"),
    PosEntry(layoutRectLtwh(VideoLeft, -100, VideoWidth, VideoHeight), "top"),
    PosEntry(layoutRectLtwh(VideoLeft, 200, VideoWidth, VideoHeight), "inside"),
    PosEntry(layoutRectLtwh(VideoLeft, 700, VideoWidth, VideoHeight), "bottom") }

\* ------------------------------------------------------------------ state
VARIABLES
  entries_,        \* VideoManager.entries_: null, or the registered videos in order
  dockedVideo_,    \* VideoManager.dockedVideo_
  scrollListenerInstalled_,  \* VideoManager.scrollListenerInstalled_
  supportsAutoplayCache_,    \* the cached result of the autoplay probe
  entry,           \* the VideoEntry of each video (fields of the class)
  ratio,           \* intersection ratio of each video element, times 100 (or NaN)
  tasks_,          \* vsync: tasks queued for the next frame
  micro,           \* pending promise continuations
  delivered,       \* position observer: the entries it has called in this frame
  last,            \* what the last handler did: its dockingState_ writes and
                   \* whether it threw
  controls,        \* the CustomControls of a video: its fields, its element's
                   \* class and styles, its queued mutates and running animations
  target,          \* an EventTarget's listener list and the closures that
                   \* internalListenImplementation returned
  nextPage         \* the next-page service: its pages and the page it fetched last

vars == <<entries_, dockedVideo_, scrollListenerInstalled_, supportsAutoplayCache_,
          entry, ratio, tasks_, micro, delivered, last, controls, target,
          nextPage>>

\* The objects the video manager's handlers never touch
others == <<controls, target, nextPage>>

Pt(x, y) == [x |-> x, y |-> y]

\* VideoEntry constructor (fields before videoBuilt_ runs), together with the
\* state of the DOM elements the entry writes to.
NewEntry(v) ==
  [ loaded_ |-> FALSE,
    isPlaying_ |-> FALSE,
    isVisible_ |-> FALSE,
    userInteractedWithAutoPlay_ |-> FALSE,
    playCalledByAutoplay_ |-> FALSE,
    pauseCalledByAutoplay_ |-> FALSE,
    initialRect_ |-> NullRect,
    minimizePosition_ |-> "inline",
    dockingState_ |-> "inline",
    visibleHeight_ |-> 0,
    internalElement_ |-> FALSE,
    draggingMask_ |-> FALSE,
    pageDir_ |-> "ltr",
    lastPosition_ |-> NoPosition,
    dragListenerInstalled_ |-> FALSE,
    isTouched_ |-> FALSE,
    isDragging_ |-> FALSE,
    isSnapping_ |-> FALSE,
    isDismissed_ |-> FALSE,
    \* dragCoordinates_.initial and .previous are written and never read
    \* back by a later handler; they are not kept.
    dragCoordinates_ |-> [ mouse |-> Pt(0, 0), displacement |-> Pt(0, 0),
                           position |-> Pt(0, 0), velocity |-> Pt(0, 0) ],
    hasBeenInViewBefore |-> FALSE,
    hasDocking |-> HasDockAttr(v),
    hasAutoplay |-> HasAutoplayAttr(v),
    \* DOM and player state written by the entry
    dockClass |-> FALSE,          \* internalElement_.classList has DOCK_CLASS
    style |-> {},                 \* inline style properties set on internalElement_
    controls |-> TRUE,            \* the player's controls are shown
    pausePending |-> FALSE,       \* video.pause() was called, PAUSE not yet delivered
    docListeners |-> FALSE,       \* document mouse/touch listeners were added
    transformAt |-> Pt(0, 0),     \* translate of the transform on internalElement_
    scaleAt |-> 1000,             \* scale of that transform, in thousandths
    snapTarget |-> [null |-> TRUE, x |-> 0, y |-> 0],   \* snap animation in flight
    touches |-> 0,                \* mousedown events so far
    actions |-> FALSE,            \* play, pause, mute, unmute are registered as actions
    loadListener |-> TRUE,        \* the one-shot LOAD listener is still waiting
    visibilityListeners |-> FALSE,  \* VISIBILITY and RELOAD listeners are installed
    autoplayMask |-> FALSE,       \* the autoplay mask and animation exist and are listened to
    maskInDom |-> FALSE,          \* they have been appended to the element
    eqPlay |-> FALSE,             \* the animation has the class amp-video-eq-play
    notifications |-> 0 ]         \* videoVisibilityChanged_ calls made by updateVisibility
                                  \* calls issued since the ratio last changed

\* The program state a handler works on, and whether it has thrown.
World ==
  [ entries_ |-> entries_, dockedVideo_ |-> dockedVideo_,
    scrollListenerInstalled_ |-> scrollListenerInstalled_,
    supportsAutoplayCache_ |-> supportsAutoplayCache_,
    entry |-> entry, tasks_ |-> tasks_, micro |-> micro, delivered |-> delivered,
    writes |-> <<>>, thrown |-> FALSE, errors |-> FALSE, result |-> "none",
    probed |-> FALSE, calls |-> <<>> ]

Throw(w) == [w EXCEPT !.thrown = TRUE]

Registered(v) == /\ ~entries_.null
                 /\ \E i \in 1..Len(entries_.list) : entries_.list[i] = v

\* ----------------------------------------------------------- VideoManager
\* What a failed call reports
NotRegistered == "video is not registered to this video manager"
TypeErrorOfNull == "TypeError: Cannot read property 'length' of null"

\* VideoManager.getEntryForVideo_: the world after the lookup; thrown is set
\* when the lookup fails. entries_ is null until the first supported video is
\* registered, and reading its length then throws.
getEntryForVideo_(w, v) ==
  IF w.entries_.null THEN [Throw(w) EXCEPT !.result = TypeErrorOfNull]
  ELSE IF \E i \in 1..Len(w.entries_.list) : w.entries_.list[i] = v THEN w
  ELSE [Throw(w) EXCEPT !.result = NotRegistered]

\* VideoManager.canDock
MutCanDockAlways(w, v) == TRUE

canDock(w, v) == w.dockedVideo_ = Null \/ w.dockedVideo_ = v

\* VideoManager.registerDocked
\* A registerDocked that does not take the slot
MutRegisterLeavesSlot(w, v) == w

registerDocked(w, v) == [w EXCEPT !.dockedVideo_ = v]

\* VideoManager.unregisterDocked
MutUnregisterKeepsSlot(w) ==
  [w EXCEPT !.entry = [u \in Videos |->
                         IF \E i \in 1..Len(w.entries_.list) : w.entries_.list[i] = u
                         THEN [w.entry[u] EXCEPT !.hasBeenInViewBefore = FALSE]
                         ELSE w.entry[u]]]

\* An unregisterDocked that resets the flag of the docked entry alone
MutUnregisterResetsDocked(w) ==
  [w EXCEPT !.dockedVideo_ = Null,
            !.entry = [u \in Videos |->
                         IF u = w.dockedVideo_
                         THEN [w.entry[u] EXCEPT !.hasBeenInViewBefore = FALSE]
                         ELSE w.entry[u]]]

\* An unregisterDocked that leaves hasBeenInViewBefore as it is
MutUnregisterKeepsSeen(w) == [w EXCEPT !.dockedVideo_ = Null]

unregisterDocked(w) ==
  [w EXCEPT !.dockedVideo_ = Null,
            !.entry = [u \in Videos |->
                         IF \E i \in 1..Len(w.entries_.list) : w.entries_.list[i] = u
                         THEN [w.entry[u] EXCEPT !.hasBeenInViewBefore = FALSE]
                         ELSE w.entry[u]]]

\* ------------------------------------------------------------- VideoEntry
\* A getPlayingState that forgets the user's interaction
MutPlayingStateNoInteraction(e) ==
  IF ~e.isPlaying_ THEN "paused"
  ELSE IF e.playCalledByAutoplay_ THEN "playing_auto" ELSE "playing_manual"

\* VideoEntry.getPlayingState
getPlayingState(e) ==
  IF ~e.isPlaying_ THEN "paused"
  ELSE IF e.isPlaying_ /\ e.playCalledByAutoplay_ /\ ~e.userInteractedWithAutoPlay_
       THEN "playing_auto"
       ELSE "playing_manual"

\* VideoEntry.userInteractedWithAutoPlay
userInteractedWithAutoPlay(e) == IF e.userInteractedWithAutoPlay_ THEN "true" ELSE "false"

\* An assignment to dockingState_, recorded (entry, old value, new value) in
\* the order the handler makes it.
SetDockingState(w, v, s) ==
  [w EXCEPT !.entry[v].dockingState_ = s,
            !.writes = Append(@, <<v, w.entry[v].dockingState_, s>>)]

\* mapRange(val, min1, max1, min2, max2) of utils/math: the linear map of
\* [min1, max1] onto [min2, max2].
\* Quotient of two numbers; the layout keeps the quotients that occur whole.
Quot(a, b) == IF b > 0 THEN a \div b ELSE (-a) \div (-b)

mapRange(val, min1, max1, min2, max2) ==
  Quot((val - min1) * (max2 - min2), max1 - min1) + min2

\* A scrollMap_ with the sense of its reverse flag exchanged
MutScrollMapExchanged(e, min, max, reverse) ==
  IF reverse
  THEN mapRange(e.visibleHeight_, 0, e.initialRect_.height, min, max)
  ELSE mapRange(e.visibleHeight_, e.initialRect_.height, 0, min, max)

\* VideoEntry.scrollMap_
scrollMap_(e, min, max, reverse) ==
  IF reverse
  THEN mapRange(e.visibleHeight_, e.initialRect_.height, 0, min, max)
  ELSE mapRange(e.visibleHeight_, 0, e.initialRect_.height, min, max)

\* scrollMap_(DOCK_SCALE, 1) in thousandths, the unit in which the mapping of
\* every whole visible height of a 200 pixel high video is exact.
DockingScale(e) == scrollMap_(e, DOCK_SCALE * 10, 1000, FALSE)

\* Size of the minimized element: the initial size scaled by DOCK_SCALE.
ScaledWidth == (DOCK_SCALE * VideoWidth) \div 100
ScaledHeight == (DOCK_SCALE * VideoHeight) \div 100

\* X/Y coordinates of each corner (drag_, "Set coordinates based on corner");
\* they are also the offsets animateDocking_ reaches at visible height 0.
CornerPos(corner, dflt) ==
  LET top == DOCK_MARGIN
      left == DOCK_MARGIN
      right == ViewportWidth - ScaledWidth - DOCK_MARGIN
      bottom == ViewportHeight - ScaledHeight - DOCK_MARGIN
  IN CASE corner = "bottom_right" -> Pt(right, bottom)
       [] corner = "top_right" -> Pt(right, top)
       [] corner = "bottom_left" -> Pt(left, bottom)
       [] corner = "top_left" -> Pt(left, top)
       [] OTHER -> dflt

\* A position update that never tests the scroll room or the video's height
MutUpdateNoRoomTest(w, v, newPos) ==
  LET e == w.entry[v]
      isLtr == e.pageDir_ = "ltr"
      isBottom == newPos.relativePos = "bottom"
      isTop == newPos.relativePos = "top"
      isInside == newPos.relativePos = "inside"
      w1 == [w EXCEPT !.entry[v].lastPosition_ = newPos]
  IN
  IF newPos.positionRect.null /\ e.initialRect_.null
  THEN Throw(w1)                      \* this.initialRect_.left of null
  ELSE
    LET rect == IF newPos.positionRect.null
                THEN IF isBottom
                     THEN layoutRectLtwh(e.initialRect_.left, ViewportHeight,
                                         e.initialRect_.width, e.initialRect_.height)
                     ELSE layoutRectLtwh(e.initialRect_.left, -e.initialRect_.height,
                                         e.initialRect_.width, e.initialRect_.height)
                ELSE newPos.positionRect
        docViewTop == ViewportRect.top
        docViewBottom == RectBottom(ViewportRect)
        elemTop == rect.top
        elemBottom == RectBottom(rect)
        visibleHeight == IF elemTop <= docViewTop THEN elemBottom - docViewTop
                         ELSE IF elemBottom >= docViewBottom THEN docViewBottom - elemTop
                         ELSE elemBottom - elemTop
        \* newPos is the object kept in lastPosition_: the fake rectangle stays in it
        w2 == [w1 EXCEPT !.entry[v].lastPosition_.positionRect = rect,
                         !.entry[v].visibleHeight_ = visibleHeight]
    IN
    IF e.initialRect_.null
    THEN Throw(w2)                    \* this.initialRect_.height of null
    ELSE
      LET w3 == [w2 EXCEPT !.entry[v].hasBeenInViewBefore =
                              e.hasBeenInViewBefore \/ visibleHeight = e.initialRect_.height]
          spaceOnTop == OffsetTop(v)
          spaceOnBottom == ScrollHeight - spaceOnTop - OffsetHeight(v)
      IN
      IF FALSE
      THEN [w3 EXCEPT !.entry[v].minimizePosition_ = "inline"]
      ELSE IF e.minimizePosition_ = "inline" /\ ~isInside
      THEN IF isTop
           THEN [w3 EXCEPT !.entry[v].minimizePosition_ =
                              IF isLtr THEN "top_right" ELSE "top_left"]
           ELSE IF isBottom
           THEN [w3 EXCEPT !.entry[v].minimizePosition_ =
                              IF isLtr THEN "bottom_right" ELSE "bottom_left"]
           ELSE w3
      ELSE IF isInside
      THEN [w3 EXCEPT !.entry[v].minimizePosition_ = "inline"]
      ELSE w3

\* VideoEntry.updateDockableVideoPosition_
\* A position update that chooses the corner anew at every position out of view
MutUpdateRecomputesCorner(w, v, newPos) ==
  LET e == w.entry[v]
      isLtr == e.pageDir_ = "ltr"
      isBottom == newPos.relativePos = "bottom"
      isTop == newPos.relativePos = "top"
      isInside == newPos.relativePos = "inside"
      w1 == [w EXCEPT !.entry[v].lastPosition_ = newPos]
  IN
  IF newPos.positionRect.null /\ e.initialRect_.null
  THEN Throw(w1)                      \* this.initialRect_.left of null
  ELSE
    LET rect == IF newPos.positionRect.null
                THEN IF isBottom
                     THEN layoutRectLtwh(e.initialRect_.left, ViewportHeight,
                                         e.initialRect_.width, e.initialRect_.height)
                     ELSE layoutRectLtwh(e.initialRect_.left, -e.initialRect_.height,
                                         e.initialRect_.width, e.initialRect_.height)
                ELSE newPos.positionRect
        docViewTop == ViewportRect.top
        docViewBottom == RectBottom(ViewportRect)
        elemTop == rect.top
        elemBottom == RectBottom(rect)
        visibleHeight == IF elemTop <= docViewTop THEN elemBottom - docViewTop
                         ELSE IF elemBottom >= docViewBottom THEN docViewBottom - elemTop
                         ELSE elemBottom - elemTop
        \* newPos is the object kept in lastPosition_: the fake rectangle stays in it
        w2 == [w1 EXCEPT !.entry[v].lastPosition_.positionRect = rect,
                         !.entry[v].visibleHeight_ = visibleHeight]
    IN
    IF e.initialRect_.null
    THEN Throw(w2)                    \* this.initialRect_.height of null
    ELSE
      LET w3 == [w2 EXCEPT !.entry[v].hasBeenInViewBefore =
                              e.hasBeenInViewBefore \/ visibleHeight = e.initialRect_.height]
          spaceOnTop == OffsetTop(v)
          spaceOnBottom == ScrollHeight - spaceOnTop - OffsetHeight(v)
      IN
      IF \/ (isBottom /\ spaceOnTop < ViewportHeight)
         \/ (isTop /\ spaceOnBottom < ViewportHeight)
         \/ OffsetHeight(v) > ViewportHeight
      THEN [w3 EXCEPT !.entry[v].minimizePosition_ = "inline"]
      ELSE IF ~isInside
      THEN IF isTop
           THEN [w3 EXCEPT !.entry[v].minimizePosition_ =
                              IF isLtr THEN "top_right" ELSE "top_left"]
           ELSE IF isBottom
           THEN [w3 EXCEPT !.entry[v].minimizePosition_ =
                              IF isLtr THEN "bottom_right" ELSE "bottom_left"]
           ELSE w3
      ELSE IF isInside
      THEN [w3 EXCEPT !.entry[v].minimizePosition_ = "inline"]
      ELSE w3

updateDockableVideoPosition_(w, v, newPos) ==
  LET e == w.entry[v]
      isLtr == e.pageDir_ = "ltr"
      isBottom == newPos.relativePos = "bottom"
      isTop == newPos.relativePos = "top"
      isInside == newPos.relativePos = "inside"
      w1 == [w EXCEPT !.entry[v].lastPosition_ = newPos]
  IN
  IF newPos.positionRect.null /\ e.initialRect_.null
  THEN Throw(w1)                      \* this.initialRect_.left of null
  ELSE
    LET rect == IF newPos.positionRect.null
                THEN IF isBottom
                     THEN layoutRectLtwh(e.initialRect_.left, ViewportHeight,
                                         e.initialRect_.width, e.initialRect_.height)
                     ELSE layoutRectLtwh(e.initialRect_.left, -e.initialRect_.height,
                                         e.initialRect_.width, e.initialRect_.height)
                ELSE newPos.positionRect
        docViewTop == ViewportRect.top
        docViewBottom == RectBottom(ViewportRect)
        elemTop == rect.top
        elemBottom == RectBottom(rect)
        visibleHeight == IF elemTop <= docViewTop THEN elemBottom - docViewTop
                         ELSE IF elemBottom >= docViewBottom THEN docViewBottom - elemTop
                         ELSE elemBottom - elemTop
        \* newPos is the object kept in lastPosition_: the fake rectangle stays in it
        w2 == [w1 EXCEPT !.entry[v].lastPosition_.positionRect = rect,
                         !.entry[v].visibleHeight_ = visibleHeight]
    IN
    IF e.initialRect_.null
    THEN Throw(w2)                    \* this.initialRect_.height of null
    ELSE
      LET w3 == [w2 EXCEPT !.entry[v].hasBeenInViewBefore =
                              e.hasBeenInViewBefore \/ visibleHeight = e.initialRect_.height]
          spaceOnTop == OffsetTop(v)
          spaceOnBottom == ScrollHeight - spaceOnTop - OffsetHeight(v)
      IN
      IF \/ (isBottom /\ spaceOnTop < ViewportHeight)
         \/ (isTop /\ spaceOnBottom < ViewportHeight)
         \/ OffsetHeight(v) > ViewportHeight
      THEN [w3 EXCEPT !.entry[v].minimizePosition_ = "inline"]
      ELSE IF e.minimizePosition_ = "inline" /\ ~isInside
      THEN IF isTop
           THEN [w3 EXCEPT !.entry[v].minimizePosition_ =
                              IF isLtr THEN "top_right" ELSE "top_left"]
           ELSE IF isBottom
           THEN [w3 EXCEPT !.entry[v].minimizePosition_ =
                              IF isLtr THEN "bottom_right" ELSE "bottom_left"]
           ELSE w3
      ELSE IF isInside
      THEN [w3 EXCEPT !.entry[v].minimizePosition_ = "inline"]
      ELSE w3

\* VideoEntry.initializeDocking_
MutInitializeDockingDocked(w, v) ==
  LET w1 == [w EXCEPT !.entry[v].dockClass = TRUE,
                      !.entry[v].controls = FALSE,
                      !.entry[v].style = @ \cup {"height", "width", "maxWidth"}]
  IN registerDocked(SetDockingState(w1, v, "docked"), v)

initializeDocking_(w, v) ==
  LET w1 == [w EXCEPT !.entry[v].dockClass = TRUE,
                      !.entry[v].controls = FALSE,
                      !.entry[v].style = @ \cup {"height", "width", "maxWidth"}]
  IN registerDocked(SetDockingState(w1, v, "docking"), v)

\* VideoEntry.finishDocking_
MutFinishKeepsStyle(w, v) ==
  LET w1 == [w EXCEPT !.entry[v].dockClass = FALSE]
      w2 == SetDockingState(w1, v, "inline")
      w3 == [w2 EXCEPT !.entry[v].controls = TRUE]
      w4 == unregisterDocked(w3)
  IN [w4 EXCEPT !.entry[v].dragListenerInstalled_ = FALSE]

finishDocking_(w, v) ==
  LET w1 == [w EXCEPT !.entry[v].dockClass = FALSE,
                      !.entry[v].style = {}]
      w2 == SetDockingState(w1, v, "inline")
      w3 == [w2 EXCEPT !.entry[v].controls = TRUE]
      w4 == unregisterDocked(w3)
  IN [w4 EXCEPT !.entry[v].dragListenerInstalled_ = FALSE]

\* VideoEntry.createDraggingMask_
createDraggingMask_(w, v) == [w EXCEPT !.entry[v].draggingMask_ = TRUE]

\* VideoEntry.removeDraggingMask_
removeDraggingMask_(w, v) ==
  IF w.entry[v].draggingMask_ THEN [w EXCEPT !.entry[v].draggingMask_ = FALSE] ELSE w

\* VideoEntry.finishDragging_
finishDragging_(w, v) == removeDraggingMask_(w, v)

\* internalElement_.getBoundingClientRect() of the minimized element: the
\* translate last written to it, and the scaled size.
MinimizedRect(e) ==
  LET at == IF "transform" \in e.style THEN e.transformAt ELSE Pt(0, 0)
  IN layoutRectLtwh(at.x, at.y, ScaledWidth, ScaledHeight)

\* VideoEntry.initializeDragging_
initializeDragging_(w, v) ==
  LET e == w.entry[v]
      minimizedRect == MinimizedRect(e)
      at == Pt(minimizedRect.left, minimizedRect.top)
  IN
  IF e.dragListenerInstalled_ THEN w
  ELSE
    LET w1 == [w EXCEPT !.entry[v].dragCoordinates_.position = at]
        w2 == createDraggingMask_(w1, v)
    IN [w2 EXCEPT !.entry[v].docListeners = TRUE,
                  !.entry[v].dragListenerInstalled_ = TRUE]

\* VideoEntry.calcDockOffsetXLeft
calcDockOffsetXLeft(e) == scrollMap_(e, e.initialRect_.left, DOCK_MARGIN, TRUE)

\* VideoEntry.calcDockOffsetXRight
calcDockOffsetXRight(e) ==
  LET initialRight == ViewportWidth - e.initialRect_.left - e.initialRect_.width
      scaledWidth == (DOCK_SCALE * e.initialRect_.width) \div 100
  IN scrollMap_(e, ViewportWidth - e.initialRect_.width - initialRight,
                ViewportWidth - scaledWidth - DOCK_MARGIN, TRUE)

\* video.element.getBoundingClientRect().top while the entry handles a
\* position: the top of the rectangle the handler works on.
InlineRectTop(e) == e.lastPosition_.positionRect.top

\* VideoEntry.calcDockOffsetYTop
calcDockOffsetYTop(e) ==
  LET inlineTop == IF InlineRectTop(e) < 0 THEN 0 ELSE InlineRectTop(e)
  IN scrollMap_(e, inlineTop, DOCK_MARGIN, TRUE)

\* VideoEntry.calcDockOffsetYBottom
calcDockOffsetYBottom(e) ==
  LET maxTop == ViewportHeight - e.initialRect_.height
      inlineTop == IF InlineRectTop(e) > maxTop THEN maxTop ELSE InlineRectTop(e)
      scaledHeight == (DOCK_SCALE * e.initialRect_.height) \div 100
  IN scrollMap_(e, inlineTop, ViewportHeight - scaledHeight - DOCK_MARGIN, TRUE)

DragStyles == {"transform", "transformOrigin", "bottom", "top", "right", "left"}

\* VideoEntry.dragMove_ applied to the dragging mask and to the element; the
\* element check fails on a mask that is null.
dragMove_(w, v) ==
  IF ~w.entry[v].draggingMask_ THEN Throw(w)
  ELSE [w EXCEPT !.entry[v].style = @ \cup DragStyles,
                 !.entry[v].transformAt = w.entry[v].dragCoordinates_.position,
                 !.entry[v].scaleAt = DOCK_SCALE * 10]

\* VideoEntry.animateSnap_ applied to the dragging mask and to the element:
\* the two animations start together and end together.
animateSnap_(w, v, newPos) ==
  IF ~w.entry[v].draggingMask_ THEN Throw(w)
  ELSE [w EXCEPT !.entry[v].snapTarget = [null |-> FALSE, x |-> newPos.x, y |-> newPos.y]]

\* VideoEntry.calcSnapCorner_
MutSnapCornerUnset(w, v, minimizedRect) ==
  [w EXCEPT !.entry[v].minimizePosition_ = "inline"]

\* A corner choice that looks at the horizontal half only
MutSnapCornerTopOnly(w, v, minimizedRect) ==
  LET centerX == w.entry[v].dragCoordinates_.position.x + minimizedRect.width \div 2
  IN [w EXCEPT !.entry[v].minimizePosition_ =
        IF centerX >= ViewportWidth \div 2 THEN "top_right" ELSE "top_left"]

calcSnapCorner_(w, v, minimizedRect) ==
  LET viewportCenterX == ViewportWidth \div 2
      viewportCenterY == ViewportHeight \div 2
      centerX == w.entry[v].dragCoordinates_.position.x + minimizedRect.width \div 2
      centerY == w.entry[v].dragCoordinates_.position.y + minimizedRect.height \div 2
  IN [w EXCEPT !.entry[v].minimizePosition_ =
        IF centerX >= viewportCenterX
        THEN IF centerY >= viewportCenterY THEN "bottom_right" ELSE "top_right"
        ELSE IF centerY >= viewportCenterY THEN "bottom_left" ELSE "top_left"]

Abs(n) == IF n < 0 THEN -n ELSE n

\* A free-motion step without friction
MutFrictionless(n) == n

\* velocity * FRICTION_COEFF, kept to whole pixels (rounded toward zero)
Friction(n) == IF n < 0 THEN -((-n * FRICTION_COEFF) \div 100)
               ELSE (n * FRICTION_COEFF) \div 100

DragTask(v) == [kind |-> "drag", v |-> v]

\* A tick that skips the draggable-state guard and always reschedules
MutDragNoGuard(w, v) == [w EXCEPT !.tasks_ = Append(@, DragTask(v))]

\* VideoEntry.drag_
\* A drag tick that starts a snap whether or not one is in progress
MutDragSnapsAgain(w, v) ==
  LET e == w.entry[v] IN
  \* (MinimizePositions has no DEFAULT and no INVIEW member: the guard's two
  \* comparisons of minimizePosition_ with them are comparisons with undefined)
  IF \/ ~e.loaded_
     \/ ~e.internalElement_
     \/ e.visibleHeight_ # 0
     \/ ~e.dockClass
     \/ e.dockingState_ # "docked"
  THEN w
  ELSE
    LET minimizedRect == MinimizedRect(e)
        dc == e.dragCoordinates_
        \* actively dragged
        dPos == Pt(dc.mouse.x - dc.displacement.x, dc.mouse.y - dc.displacement.y)
        dVel == Pt(dPos.x - dc.position.x, dPos.y - dc.position.y)
        vidCenterX == dPos.x + minimizedRect.width \div 2
        vidCenterY == dPos.y + minimizedRect.height \div 2
        out == \/ vidCenterX > ViewportWidth
               \/ vidCenterX < 0
               \/ vidCenterY > ViewportHeight
               \/ vidCenterY < 0
        wDrag == [w EXCEPT !.entry[v].dragCoordinates_.position = dPos,
                           !.entry[v].dragCoordinates_.velocity = dVel,
                           !.entry[v].isDismissed_ = IF out THEN TRUE ELSE @]
        \* free motion
        wFree == [w EXCEPT !.entry[v].dragCoordinates_.position =
                              Pt(dc.position.x + dc.velocity.x, dc.position.y + dc.velocity.y),
                           !.entry[v].dragCoordinates_.velocity =
                              Pt(Friction(dc.velocity.x), Friction(dc.velocity.y))]
    IN
    IF ~e.isDragging_ /\ e.isDismissed_
    THEN LET w1 == [wFree EXCEPT !.entry[v].pausePending = TRUE,      \* video.pause()
                                 !.calls = Append(@, "pause")]
             w2 == finishDocking_(w1, v)
         IN [w2 EXCEPT !.entry[v].isDismissed_ = FALSE]
    ELSE
      LET w1 == IF e.isDragging_ THEN wDrag ELSE wFree
          e1 == w1.entry[v]
          snap == /\ ~e1.isDragging_
                  /\ Abs(e1.dragCoordinates_.velocity.x) <= STOP_THRESHOLD
                  /\ Abs(e1.dragCoordinates_.velocity.y) <= STOP_THRESHOLD
          w2 == IF snap THEN calcSnapCorner_(w1, v, minimizedRect) ELSE w1
          newPos == CornerPos(w2.entry[v].minimizePosition_, e1.dragCoordinates_.position)
          w3 == IF snap /\ e1.dragCoordinates_.position # newPos
                THEN animateSnap_([w2 EXCEPT !.entry[v].isSnapping_ = TRUE], v, newPos)
                ELSE w2
          w4 == IF ~w3.thrown /\ ~w3.entry[v].isSnapping_ THEN dragMove_(w3, v) ELSE w3
      IN IF w4.thrown THEN w4
         ELSE [w4 EXCEPT !.tasks_ = Append(@, DragTask(v))]    \* vsync_.mutate(drag_)

drag_(w, v) ==
  LET e == w.entry[v] IN
  \* (MinimizePositions has no DEFAULT and no INVIEW member: the guard's two
  \* comparisons of minimizePosition_ with them are comparisons with undefined)
  IF \/ ~e.loaded_
     \/ ~e.internalElement_
     \/ e.visibleHeight_ # 0
     \/ ~e.dockClass
     \/ e.dockingState_ # "docked"
  THEN w
  ELSE
    LET minimizedRect == MinimizedRect(e)
        dc == e.dragCoordinates_
        \* actively dragged
        dPos == Pt(dc.mouse.x - dc.displacement.x, dc.mouse.y - dc.displacement.y)
        dVel == Pt(dPos.x - dc.position.x, dPos.y - dc.position.y)
        vidCenterX == dPos.x + minimizedRect.width \div 2
        vidCenterY == dPos.y + minimizedRect.height \div 2
        out == \/ vidCenterX > ViewportWidth
               \/ vidCenterX < 0
               \/ vidCenterY > ViewportHeight
               \/ vidCenterY < 0
        wDrag == [w EXCEPT !.entry[v].dragCoordinates_.position = dPos,
                           !.entry[v].dragCoordinates_.velocity = dVel,
                           !.entry[v].isDismissed_ = IF out THEN TRUE ELSE @]
        \* free motion
        wFree == [w EXCEPT !.entry[v].dragCoordinates_.position =
                              Pt(dc.position.x + dc.velocity.x, dc.position.y + dc.velocity.y),
                           !.entry[v].dragCoordinates_.velocity =
                              Pt(Friction(dc.velocity.x), Friction(dc.velocity.y))]
    IN
    IF ~e.isDragging_ /\ e.isDismissed_
    THEN LET w1 == [wFree EXCEPT !.entry[v].pausePending = TRUE,      \* video.pause()
                                 !.calls = Append(@, "pause")]
             w2 == finishDocking_(w1, v)
         IN [w2 EXCEPT !.entry[v].isDismissed_ = FALSE]
    ELSE
      LET w1 == IF e.isDragging_ THEN wDrag ELSE wFree
          e1 == w1.entry[v]
          snap == /\ ~e1.isDragging_ /\ ~e1.isSnapping_
                  /\ Abs(e1.dragCoordinates_.velocity.x) <= STOP_THRESHOLD
                  /\ Abs(e1.dragCoordinates_.velocity.y) <= STOP_THRESHOLD
          w2 == IF snap THEN calcSnapCorner_(w1, v, minimizedRect) ELSE w1
          newPos == CornerPos(w2.entry[v].minimizePosition_, e1.dragCoordinates_.position)
          w3 == IF snap /\ e1.dragCoordinates_.position # newPos
                THEN animateSnap_([w2 EXCEPT !.entry[v].isSnapping_ = TRUE], v, newPos)
                ELSE w2
          w4 == IF ~w3.thrown /\ ~w3.entry[v].isSnapping_ THEN dragMove_(w3, v) ELSE w3
      IN IF w4.thrown THEN w4
         ELSE [w4 EXCEPT !.tasks_ = Append(@, DragTask(v))]    \* vsync_.mutate(drag_)

\* VideoEntry.animateDocking_
\* The translate animateDocking_ computes for the entry's corner
DockTranslate(e) ==
  LET mp == e.minimizePosition_ IN
  CASE mp = "top_left" -> Pt(calcDockOffsetXLeft(e), calcDockOffsetYTop(e))
    [] mp = "top_right" -> Pt(calcDockOffsetXRight(e), calcDockOffsetYTop(e))
    [] mp = "bottom_left" -> Pt(calcDockOffsetXLeft(e), calcDockOffsetYBottom(e))
    [] mp = "bottom_right" -> Pt(calcDockOffsetXRight(e), calcDockOffsetYBottom(e))
    [] OTHER -> Pt(0, 0)

\* An animateDocking_ that takes a nearly minimized video for a minimized one
MutAnimateDockingRounds(w, v) ==
  LET e == w.entry[v]
      w1 == [w EXCEPT !.entry[v].style = @ \cup DragStyles,
                      !.entry[v].transformAt = DockTranslate(e),
                      !.entry[v].scaleAt = DockingScale(e)]
  IN
  IF DockingScale(e) \div 10 = DOCK_SCALE
  THEN drag_(initializeDragging_(SetDockingState(w1, v, "docked"), v), v)
  ELSE SetDockingState(finishDragging_(w1, v), v, "docking")

animateDocking_(w, v) ==
  LET e == w.entry[v]
      w1 == [w EXCEPT !.entry[v].style = @ \cup DragStyles,
                      !.entry[v].transformAt = DockTranslate(e),
                      !.entry[v].scaleAt = DockingScale(e)]
  IN
  IF DockingScale(e) = DOCK_SCALE * 10
  THEN drag_(initializeDragging_(SetDockingState(w1, v, "docked"), v), v)
  ELSE SetDockingState(finishDragging_(w1, v), v, "docking")

\* A handler that docks whatever the playing state is
MutDockAnyPlayingState(w, v, newPos) ==
  LET w1 == updateDockableVideoPosition_(w, v, newPos)
      e == w1.entry[v]
  IN IF w1.thrown \/ ~e.loaded_ \/ e.initialRect_.null \/ ~e.internalElement_ THEN w1
     ELSE IF e.minimizePosition_ # "inline" /\ e.hasBeenInViewBefore
     THEN LET w2 == IF e.dockingState_ = "inline" /\ canDock(w1, v)
                    THEN initializeDocking_(w1, v) ELSE w1
          IN IF w2.entry[v].dockingState_ # "inline" THEN animateDocking_(w2, v) ELSE w2
     ELSE IF e.dockClass THEN finishDocking_(w1, v)
     ELSE w1

\* A handler that docks a video that was never in view
MutDockNeverSeen(w, v, newPos) ==
  LET w1 == updateDockableVideoPosition_(w, v, newPos)
      e == w1.entry[v]
  IN IF \/ w1.thrown \/ ~e.loaded_ \/ e.initialRect_.null \/ ~e.internalElement_
        \/ (getPlayingState(e) # "playing_manual" /\ ~e.dockClass)
     THEN w1
     ELSE IF /\ e.minimizePosition_ # "inline"
             /\ (getPlayingState(e) = "playing_manual"
                 \/ (getPlayingState(e) = "paused" /\ e.dockClass))
     THEN LET w2 == IF e.dockingState_ = "inline" /\ canDock(w1, v)
                    THEN initializeDocking_(w1, v) ELSE w1
          IN IF w2.entry[v].dockingState_ # "inline" THEN animateDocking_(w2, v) ELSE w2
     ELSE IF e.dockClass THEN finishDocking_(w1, v)
     ELSE w1

\* VideoEntry.onDockableVideoPositionChanged
onDockableVideoPositionChanged(w, v, newPos) ==
  LET w1 == updateDockableVideoPosition_(w, v, newPos)
      e == w1.entry[v]
  IN
  IF w1.thrown THEN w1
  ELSE IF \/ ~e.loaded_
          \/ e.initialRect_.null
          \/ ~e.internalElement_
          \/ (getPlayingState(e) # "playing_manual" /\ ~e.dockClass)
  THEN w1
  ELSE
    LET outOfView == e.minimizePosition_ # "inline" /\ e.hasBeenInViewBefore
        manPlaying == getPlayingState(e) = "playing_manual"
        paused == getPlayingState(e) = "paused"
        docked == e.dockClass
    IN
    IF outOfView /\ (manPlaying \/ (paused /\ docked))
    THEN LET w2 == IF e.dockingState_ = "inline" /\ canDock(w1, v)
                   THEN initializeDocking_(w1, v) ELSE w1
         IN IF w2.entry[v].dockingState_ # "inline" THEN animateDocking_(w2, v) ELSE w2
    ELSE IF e.dockClass THEN finishDocking_(w1, v)
    ELSE w1

\* ------------------------------------------------- visibility and autoplay
Ratio(n) == [finite |-> TRUE, times100 |-> n]
NaNRatio == [finite |-> FALSE, times100 |-> 0]

VisibilityTask(v, was) ==
  [kind |-> "visibility", v |-> v, wasVisible |-> was, fresh |-> TRUE]
BuiltTask(v) == [kind |-> "built", v |-> v]
ResizeTask(v) == [kind |-> "resize", v |-> v]
MaskTask(v) == [kind |-> "mask", v |-> v]
ToggleTask(v, playing) == [kind |-> "toggle", v |-> v, playing |-> playing]

\* A supportsAutoplay that does not look at its cache
MutSupportsAutoplayNoCache(w, isLiteViewer, probe) ==
  IF isLiteViewer THEN [w EXCEPT !.supportsAutoplayCache_ = "no"]
  ELSE [w EXCEPT !.supportsAutoplayCache_ = IF probe THEN "yes" ELSE "no",
                 !.probed = TRUE]

\* supportsAutoplay: the cached result; without one, false in a lite viewer
\* and the outcome of the probe otherwise, either of which is then cached.
supportsAutoplay(w, isLiteViewer, probe) ==
  IF w.supportsAutoplayCache_ # "null" THEN w
  ELSE IF isLiteViewer THEN [w EXCEPT !.supportsAutoplayCache_ = "no"]
  ELSE [w EXCEPT !.supportsAutoplayCache_ = IF probe THEN "yes" ELSE "no",
                 !.probed = TRUE]

\* clearSupportsAutoplayCacheForTesting
clearSupportsAutoplayCacheForTesting(w) == [w EXCEPT !.supportsAutoplayCache_ = "null"]

\* VideoEntry.updateVisibility: the call itself (wasVisible is read now, the
\* measure and mutate steps are queued).
updateVisibility(w, v) ==
  [w EXCEPT !.tasks_ = Append(@, VisibilityTask(v, w.entry[v].isVisible_))]

\* VideoEntry.updateVisibility, measure step
MutMeasureStrict(r) == (IF ~r.finite THEN 0 ELSE r.times100) > VISIBILITY_PERCENT

measureVisible(r) ==
  LET visiblePercent == IF ~r.finite THEN 0 ELSE r.times100
  IN visiblePercent >= VISIBILITY_PERCENT

\* VideoEntry.loadedVideoVisibilityChanged_ up to the promise; the
\* continuation is queued with the promise's value.
loadedVideoVisibilityChanged_(w, v, viewerVisible, probe) ==
  IF ~viewerVisible THEN w
  ELSE LET w1 == supportsAutoplay(w, LiteMode, probe)
       IN [w1 EXCEPT !.micro = Append(@, [kind |-> "visibilityChanged", v |-> v,
                                          supports |-> w1.supportsAutoplayCache_ = "yes"])]

\* VideoEntry.videoVisibilityChanged_
videoVisibilityChanged_(w, v, viewerVisible, probe) ==
  IF w.entry[v].loaded_ THEN loadedVideoVisibilityChanged_(w, v, viewerVisible, probe)
  ELSE w

\* VideoEntry.autoplayLoadedVideoVisibilityChanged_
\* A handler that starts playback whichever way the visibility went
MutAutoplayAlwaysPlays(w, v) ==
  [w EXCEPT !.calls = Append(@, "play(true)"),
            !.entry[v].playCalledByAutoplay_ = TRUE]

autoplayLoadedVideoVisibilityChanged_(w, v) ==
  IF w.entry[v].isVisible_
  THEN [w EXCEPT !.calls = Append(@, "play(true)"),                \* video.play(true)
                 !.entry[v].playCalledByAutoplay_ = TRUE]
  ELSE [w EXCEPT !.calls = Append(@, "pause"),                     \* video.pause()
                 !.entry[v].pausePending = TRUE,
                 !.entry[v].pauseCalledByAutoplay_ = TRUE]

\* The continuation of loadedVideoVisibilityChanged_
\* A continuation that autoplays without asking whether autoplay is supported
MutVisibilityIgnoresSupport(w, v, supports) ==
  IF w.entry[v].hasAutoplay /\ ~w.entry[v].userInteractedWithAutoPlay_
  THEN autoplayLoadedVideoVisibilityChanged_(w, v)
  ELSE w

\* A continuation that autoplays whether or not the user has tapped the video
MutVisibilityIgnoresInteraction(w, v, supports) ==
  IF w.entry[v].hasAutoplay /\ supports THEN autoplayLoadedVideoVisibilityChanged_(w, v)
  ELSE w

visibilityChangedThen(w, v, supports) ==
  LET canAutoplay == w.entry[v].hasAutoplay /\ ~w.entry[v].userInteractedWithAutoPlay_
  IN IF canAutoplay /\ supports THEN autoplayLoadedVideoVisibilityChanged_(w, v)
     ELSE w                      \* nonAutoplayLoadedVideoVisibilityChanged_: sessions only

\* VideoEntry.videoPlayed_
videoPlayed_(w, v) == [w EXCEPT !.entry[v].isPlaying_ = TRUE]

\* VideoEntry.videoPaused_ (the player has paused: a pending pause() is done)
\* A PAUSE handler that also forgets the user's tap
MutPausedForgetsInteraction(w, v) ==
  [w EXCEPT !.entry[v].isPlaying_ = FALSE,
            !.entry[v].pauseCalledByAutoplay_ = FALSE,
            !.entry[v].pausePending = FALSE,
            !.entry[v].userInteractedWithAutoPlay_ = FALSE]

videoPaused_(w, v) ==
  [w EXCEPT !.entry[v].isPlaying_ = FALSE,
            !.entry[v].pauseCalledByAutoplay_ = FALSE,
            !.entry[v].pausePending = FALSE]

\* VideoEntry.videoEnded_
videoEnded_(w, v) == [w EXCEPT !.entry[v].isPlaying_ = FALSE]

\* VideoEntry.videoLoaded
videoLoaded(w, v, viewerVisible, probe) ==
  LET w1 == [w EXCEPT !.entry[v].loaded_ = TRUE,
                      !.entry[v].internalElement_ = TRUE]
      w2 == updateVisibility(w1, v)
  IN IF w2.entry[v].isVisible_
     THEN loadedVideoVisibilityChanged_(w2, v, viewerVisible, probe)
     ELSE w2

\* VideoEntry.autoplayInteractiveVideoBuilt_
autoplayInteractiveVideoBuilt_(w, v) ==
  [w EXCEPT !.entry[v].controls = FALSE,
            !.entry[v].autoplayMask = TRUE,
            !.tasks_ = Append(@, MaskTask(v))]

\* toggleAnimation, the listener autoplayInteractiveVideoBuilt_ adds to PAUSE
\* and PLAYING until the user interacts
toggleAnimation(w, v, playing) ==
  IF w.entry[v].autoplayMask
  THEN [w EXCEPT !.tasks_ = Append(@, ToggleTask(v, playing))]
  ELSE w

\* The continuation of autoplayVideoBuilt_
\* onInteraction: the tap on the autoplay mask
onInteraction(w, v) ==
  [w EXCEPT !.entry[v].userInteractedWithAutoPlay_ = TRUE,
            !.entry[v].controls = TRUE,
            !.entry[v].autoplayMask = FALSE,
            !.entry[v].maskInDom = FALSE]

autoplayVideoBuiltThen(w, v, supports) ==
  IF ~supports /\ IsInteractive(v)
  THEN [w EXCEPT !.entry[v].controls = TRUE]
  ELSE IF IsInteractive(v) THEN autoplayInteractiveVideoBuilt_(w, v) ELSE w

\* VideoEntry.autoplayVideoBuilt_
autoplayVideoBuilt_(w, v, probe) ==
  LET w1 == IF IsInteractive(v) THEN [w EXCEPT !.entry[v].controls = FALSE] ELSE w
      w2 == supportsAutoplay(w1, LiteMode, probe)
  IN [w2 EXCEPT !.micro = Append(@, [kind |-> "autoplayBuilt", v |-> v,
                                     supports |-> w2.supportsAutoplayCache_ = "yes"])]

\* VideoEntry.dockableVideoBuilt_
dockableVideoBuilt_(w, v) == [w EXCEPT !.tasks_ = Append(@, BuiltTask(v))]

\* VideoEntry.videoBuilt_
videoBuilt_(w, v, probe) ==
  LET w1 == updateVisibility(w, v)
      w2 == IF w1.entry[v].hasAutoplay THEN autoplayVideoBuilt_(w1, v, probe) ELSE w1
  IN IF w2.entry[v].hasDocking
     THEN [dockableVideoBuilt_(w2, v) EXCEPT !.entry[v].pageDir_ = PageDir(v)]
     ELSE w2

\* VideoManager.maybeInstallVisibilityObserver_
maybeInstallVisibilityObserver_(w, v) ==
  IF ~w.entry[v].hasAutoplay /\ ~SupportsAnalytics(v) THEN w
  ELSE [w EXCEPT !.entry[v].visibilityListeners = TRUE,
                 !.scrollListenerInstalled_ = TRUE]

\* VideoManager.registerCommonActions_
registerCommonActions_(w, v) == [w EXCEPT !.entry[v].actions = TRUE]

\* A register that does not ask the video whether it supports the platform
MutRegisterAnyPlatform(w, v, probe) ==
  LET w0 == registerCommonActions_(w, v)
      w1 == [w0 EXCEPT !.entries_ = IF @.null THEN [null |-> FALSE, list |-> <<>>] ELSE @]
      w2 == videoBuilt_([w1 EXCEPT !.entry[v] = [NewEntry(v) EXCEPT !.actions = TRUE]],
                        v, probe)
      w3 == maybeInstallVisibilityObserver_(w2, v)
  IN [w3 EXCEPT !.entries_.list = Append(@, v)]

\* VideoManager.register
register(w, v, probe) ==
  LET w0 == registerCommonActions_(w, v) IN
  IF ~SupportsPlatform(v) THEN w0
  ELSE
    LET w1 == [w0 EXCEPT !.entries_ = IF @.null THEN [null |-> FALSE, list |-> <<>>] ELSE @]
        w2 == videoBuilt_([w1 EXCEPT !.entry[v] = [NewEntry(v) EXCEPT !.actions = TRUE]],
                          v, probe)
        w3 == maybeInstallVisibilityObserver_(w2, v)
    IN [w3 EXCEPT !.entries_.list = Append(@, v)]

\* ---------------------------------------------------------------- actions
\* The program state of a new manager, before any video is registered.
NewWorld ==
  [ entries_ |-> [null |-> TRUE, list |-> <<>>], dockedVideo_ |-> Null,
    scrollListenerInstalled_ |-> FALSE, supportsAutoplayCache_ |-> "null",
    entry |-> [v \in Videos |-> NewEntry(v)], tasks_ |-> <<>>, micro |-> <<>>,
    delivered |-> {}, writes |-> <<>>, thrown |-> FALSE, errors |-> FALSE, result |-> "none",
    probed |-> FALSE, calls |-> <<>> ]

\* The pages of VALID_CONFIG, after the host page (index 0 in the service's
\* list, index 1 here)
ConfiguredPages == 2

\* A page as the service holds it, with what its container shows
NewPage(state, visibility) ==
  [ state_ |-> state, visibilityState_ |-> visibility,
    fetchCalls |-> 0, pauseCalls |-> 0, resumeCalls |-> 0,
    shadowRoot |-> FALSE, placeholder |-> FALSE,
    height |-> 0,                  \* of the shadow root, when there is one
    placeholderHeight |-> 0 ]

\* The service after build and layoutCallback: the host page and the queue
NewNextPage ==
  [ pages_ |-> <<NewPage("inserted", "visible")>> \o
               [i \in 1..ConfiguredPages |-> NewPage("queued", "prerender")],
    lastFetchedPage_ |-> 1,
    scrollDirection_ |-> "down" ]

\* The unlisten functions the callers hold, by name
Handles == {"h1", "h2"}

EventTypes == {"click", "scroll"}

\* An element nobody listens to yet.  Per handle: the closure's variables
\* (localElement, wrapped, and the option value it passes), and how often its
\* listener ran.
NewTarget ==
  [ listeners |-> {},
    closure |-> [h \in Handles |-> [made |-> FALSE, localElement |-> FALSE,
                                     wrapped |-> FALSE, eventType |-> "click",
                                     options |-> [supported |-> FALSE, capture |-> FALSE,
                                                  passive |-> FALSE]]],
    invoked |-> [h \in Handles |-> 0],
    removed |-> {} ]               \* what the last removeEventListener took off

\* CustomControls constructor: the fields it sets and the elements
\* createCustomControls_ builds (shown, no class or style yet)
NewControls ==
  [ controlsTimer_ |-> FALSE,      \* a hide timeout is pending
    controlsShown_ |-> TRUE,
    controlsShowing_ |-> FALSE,
    controlsDisabled_ |-> FALSE,
    minimal_ |-> FALSE,
    hiddenClass |-> FALSE,         \* amp-media-custom-controls-hidden
    pointerEvents |-> "",          \* the container's pointer-events style
    opacity |-> 100,               \* of the animated elements, in percent
    isPlaying |-> FALSE,           \* entry_.isPlaying()
    mutates |-> <<>>,              \* callbacks queued with vsync.mutate
    showing |-> 0,                 \* fade-in animations running
    hiding |-> 0 ]                 \* fade-out animations running

\* The program is in state w, every element out of view.
StartsAs(w) ==
  /\ ratio = [v \in Videos |-> Ratio(0)]
  /\ entries_ = w.entries_
  /\ dockedVideo_ = w.dockedVideo_
  /\ scrollListenerInstalled_ = w.scrollListenerInstalled_
  /\ supportsAutoplayCache_ = w.supportsAutoplayCache_
  /\ entry = w.entry
  /\ tasks_ = w.tasks_
  /\ micro = w.micro
  /\ delivered = {}
  /\ last = [writes |-> <<>>, thrown |-> FALSE, result |-> "none", probed |-> FALSE,
              calls |-> <<>>]
  /\ controls = NewControls
  /\ target = NewTarget
  /\ nextPage = NewNextPage

Init == StartsAs(NewWorld)

\* No handler, frame or promise continuation is running or due.
Idle == micro = <<>>

\* The handler's effects become the program state.
Commit(w) ==
  /\ Len(w.tasks_) <= MaxTasks
  /\ entries_' = w.entries_
  /\ dockedVideo_' = w.dockedVideo_
  /\ scrollListenerInstalled_' = w.scrollListenerInstalled_
  /\ supportsAutoplayCache_' = w.supportsAutoplayCache_
  /\ entry' = w.entry
  /\ tasks_' = w.tasks_
  /\ micro' = w.micro
  /\ delivered' = w.delivered
  /\ last' = [writes |-> w.writes, thrown |-> w.thrown \/ w.errors, result |-> w.result,
              probed |-> w.probed, calls |-> w.calls]
  /\ UNCHANGED others

\* The probe outcome matters only to the call that runs the probe.
ProbeInputs == IF supportsAutoplayCache_ = "null" THEN BOOLEAN ELSE {FALSE}

\* manager.register(video)
Register(v, probe) ==
  /\ Idle
  /\ ~Registered(v)
  /\ Commit(register(World, v, probe))
  /\ UNCHANGED ratio

\* supportsAutoplay(win, isLiteViewer) called directly; the promise's value
\* is the result.
SupportsAutoplay(isLiteViewer, probe) ==
  /\ Idle
  /\ LET w == supportsAutoplay(World, isLiteViewer, probe)
     IN Commit([w EXCEPT !.result =
                  IF w.supportsAutoplayCache_ = "yes" THEN "true" ELSE "false"])
  /\ UNCHANGED ratio

ClearSupportsAutoplayCacheForTesting ==
  /\ Idle
  /\ Commit(clearSupportsAutoplayCacheForTesting(World))
  /\ UNCHANGED ratio

\* manager.getPlayingState(video)
GetPlayingState(v) ==
  /\ Idle
  /\ LET w == getEntryForVideo_(World, v)
     IN Commit(IF w.thrown THEN w ELSE [w EXCEPT !.result = getPlayingState(w.entry[v])])
  /\ UNCHANGED ratio

\* manager.userInteractedWithAutoPlay(video)
UserInteractedWithAutoPlay(v) ==
  /\ Idle
  /\ LET w == getEntryForVideo_(World, v)
     IN Commit(IF w.thrown THEN w
               ELSE [w EXCEPT !.result = userInteractedWithAutoPlay(w.entry[v])])
  /\ UNCHANGED ratio

\* VideoEvents.LOAD on the element: the one-shot promise resolves.
Load(v) ==
  /\ Idle
  /\ Registered(v)
  /\ entry[v].loadListener
  /\ Commit([World EXCEPT !.entry[v].loadListener = FALSE,
                          !.micro = Append(@, [kind |-> "loaded", v |-> v,
                                               supports |-> FALSE])])
  /\ UNCHANGED ratio

\* VideoEvents.RELOAD on the element
Reload(v, viewerVisible, probe) ==
  /\ Idle
  /\ Registered(v)
  /\ entry[v].visibilityListeners
  /\ Commit(videoLoaded(World, v, viewerVisible, probe))
  /\ UNCHANGED ratio

\* VideoEvents.PLAYING: VideoEntry.videoPlayed_, then the animation's listener
Playing(v) ==
  /\ Idle
  /\ Registered(v)
  /\ Commit(toggleAnimation(videoPlayed_(World, v), v, TRUE))
  /\ UNCHANGED ratio

\* VideoEvents.PAUSE: VideoEntry.videoPaused_, then the animation's listener
Pause(v) ==
  /\ Idle
  /\ Registered(v)
  /\ Commit(toggleAnimation(videoPaused_(World, v), v, FALSE))
  /\ UNCHANGED ratio

\* VideoEvents.ENDED: VideoEntry.videoEnded_
Ended(v) ==
  /\ Idle
  /\ Registered(v)
  /\ Commit(videoEnded_(World, v))
  /\ UNCHANGED ratio

\* The position observer's callback for a dockable video, which an entry
\* gets at most once per frame
PositionChanged(v, newPos) ==
  /\ Idle
  /\ Registered(v)
  /\ entry[v].hasDocking
  /\ v \notin delivered
  /\ Commit(onDockableVideoPositionChanged([World EXCEPT !.delivered = @ \cup {v}],
                                            v, newPos))
  /\ UNCHANGED ratio

\* VideoEntry.mouse_ for a mouse event at e (e.x of 0 is falsy)
mouse_(w, v, e, updateDisplacement) ==
  LET w1 == IF e.x # 0 THEN [w EXCEPT !.entry[v].dragCoordinates_.mouse = e] ELSE w
      dc == w1.entry[v].dragCoordinates_
  IN IF updateDisplacement
     THEN [w1 EXCEPT !.entry[v].dragCoordinates_.displacement =
                        Pt(Abs(dc.position.x - dc.mouse.x), Abs(dc.position.y - dc.mouse.y))]
     ELSE w1

RECURSIVE ForEachEntry(_, _, _, _)
\* A listener of every entry, in registration order from index i on: the
\* scroll listener's loop, the resize callbacks, the document listeners.
ForEachEntry(w, i, kind, e) ==
  IF i > Len(w.entries_.list) THEN w
  ELSE LET v == w.entries_.list[i]
           w1 == CASE kind = "updateVisibility" -> updateVisibility(w, v)
                   [] kind = "resize" ->
                        IF w.entry[v].hasDocking
                        THEN [w EXCEPT !.tasks_ = Append(@, ResizeTask(v))] ELSE w
                   [] kind = "mouseup" ->
                        IF w.entry[v].docListeners
                        THEN [w EXCEPT !.entry[v].isTouched_ = FALSE,
                                       !.entry[v].isDragging_ = FALSE] ELSE w
                   [] kind = "mousemove" ->
                        IF w.entry[v].docListeners
                        THEN mouse_([w EXCEPT !.entry[v].isDragging_ = w.entry[v].isTouched_],
                                    v, e, FALSE)
                        ELSE w
                   [] OTHER -> w
       IN ForEachEntry(w1, i + 1, kind, e)

\* viewport.onResize: the callback of every dockable entry
Resize ==
  /\ Idle
  /\ \E v \in Videos : Registered(v) /\ entry[v].hasDocking
  /\ Commit(ForEachEntry(World, 1, "resize", Pt(0, 0)))
  /\ UNCHANGED ratio

\* The page scrolls or changes and the element's intersection ratio with it.
SetRatio(v, r) ==
  /\ Idle
  /\ Registered(v)
  /\ r # ratio[v]
  /\ ratio' = [ratio EXCEPT ![v] = r]
  /\ entry' = [entry EXCEPT ![v].notifications = 0]
  /\ tasks_' = [i \in 1..Len(tasks_) |->
                  IF tasks_[i].kind = "visibility" /\ tasks_[i].v = v
                  THEN [tasks_[i] EXCEPT !.fresh = FALSE] ELSE tasks_[i]]
  /\ last' = [writes |-> <<>>, thrown |-> FALSE, result |-> "none", probed |-> FALSE,
              calls |-> <<>>]
  /\ UNCHANGED <<entries_, dockedVideo_, scrollListenerInstalled_,
                 supportsAutoplayCache_, micro, delivered>>
  /\ UNCHANGED others

\* viewport.onScroll / onChanged: the manager's scroll listener
Scroll ==
  /\ Idle
  /\ scrollListenerInstalled_
  /\ Commit(ForEachEntry(World, 1, "updateVisibility", Pt(0, 0)))
  /\ UNCHANGED ratio

\* VideoEvents.VISIBILITY on the element
Visibility(v) ==
  /\ Idle
  /\ Registered(v)
  /\ entry[v].visibilityListeners
  /\ Commit(updateVisibility(World, v))
  /\ UNCHANGED ratio

\* click on the autoplay mask: onInteraction
Click(v) ==
  /\ Idle
  /\ Registered(v)
  /\ entry[v].autoplayMask /\ entry[v].maskInDom
  /\ Commit(onInteraction(World, v))
  /\ UNCHANGED ratio

\* Where the pointer can be
MousePoints == {Pt(760, 80)}

\* Where on the dragging mask the pointer goes down, from its top left corner
DownOffsets == {Pt(60, 60)}

\* The dragging mask sits where the drag loop last put it, or where the snap
\* animation is taking it.
MaskAt(e) ==
  {e.dragCoordinates_.position} \cup
  (IF e.snapTarget.null THEN {} ELSE {Pt(e.snapTarget.x, e.snapTarget.y)})

\* mousedown / touchstart on the dragging mask
MouseDown(v, at, off) ==
  /\ Idle
  /\ Registered(v)
  /\ entry[v].draggingMask_
  /\ entry[v].touches < MaxTouches
  /\ at \in MaskAt(entry[v])
  /\ Commit(mouse_([World EXCEPT !.entry[v].isTouched_ = TRUE,
                                 !.entry[v].isDragging_ = FALSE,
                                 !.entry[v].touches = @ + 1],
                   v, Pt(at.x + off.x, at.y + off.y), TRUE))
  /\ UNCHANGED ratio

\* mouseup / touchend on the document
MouseUp ==
  /\ Idle
  /\ \E v \in Videos : entry[v].docListeners /\ entry[v].isTouched_
  /\ Commit(ForEachEntry(World, 1, "mouseup", Pt(0, 0)))
  /\ UNCHANGED ratio

\* mousemove / touchmove on the document
\* (a move with no button held only overwrites the pointer coordinates, which
\* the next mousedown overwrites again before they are read)
MouseMove(p) ==
  /\ Idle
  /\ \E v \in Videos : entry[v].docListeners /\ entry[v].isTouched_
  /\ Commit(ForEachEntry(World, 1, "mousemove", p))
  /\ UNCHANGED ratio

\* The two snap animations end (animateSnap_, thenAlways)
SnapDone(v) ==
  /\ Idle
  /\ ~entry[v].snapTarget.null
  /\ LET t == Pt(entry[v].snapTarget.x, entry[v].snapTarget.y)
     IN Commit([World EXCEPT !.entry[v].dragCoordinates_.position = t,
                             !.entry[v].isSnapping_ = FALSE,
                             !.entry[v].snapTarget = [null |-> TRUE, x |-> 0, y |-> 0],
                             !.entry[v].style = @ \cup {"transform"},
                             !.entry[v].transformAt = t,
                             !.entry[v].scaleAt = DOCK_SCALE * 10])
  /\ UNCHANGED ratio

\* The measure step of one task
measure(w, t) ==
  CASE t.kind = "visibility" ->
         [w EXCEPT !.entry[t.v].isVisible_ = measureVisible(ratio[t.v])]
    [] t.kind \in {"built", "resize"} ->
         [w EXCEPT !.entry[t.v].initialRect_ = BoundingClientRect(t.v)]
    [] OTHER -> w

\* The mutate step of one task
\* A resize step that resets dockingState_ and does not look at the last position
MutMutateResizeResetsOnly(w, t, viewerVisible, probe) ==
  CASE t.kind = "visibility" ->
         IF w.entry[t.v].isVisible_ # t.wasVisible
         THEN videoVisibilityChanged_(
                [w EXCEPT !.entry[t.v].notifications =
                             IF t.fresh /\ @ < 2 THEN @ + 1 ELSE @],
                t.v, viewerVisible, probe)
         ELSE w
    [] t.kind = "resize" -> SetDockingState(w, t.v, "inline")
    [] t.kind = "drag" -> drag_(w, t.v)
    [] t.kind = "mask" -> [w EXCEPT !.entry[t.v].maskInDom = w.entry[t.v].autoplayMask]
    [] t.kind = "toggle" -> [w EXCEPT !.entry[t.v].eqPlay = t.playing]
    [] OTHER -> w

mutate(w, t, viewerVisible, probe) ==
  CASE t.kind = "visibility" ->
         IF w.entry[t.v].isVisible_ # t.wasVisible
         THEN videoVisibilityChanged_(
                [w EXCEPT !.entry[t.v].notifications =
                             IF t.fresh /\ @ < 2 THEN @ + 1 ELSE @],
                t.v, viewerVisible, probe)
         ELSE w
    [] t.kind = "resize" ->
         LET w1 == SetDockingState(w, t.v, "inline")
         IN IF ~w1.entry[t.v].lastPosition_.null
            THEN onDockableVideoPositionChanged(w1, t.v, w1.entry[t.v].lastPosition_)
            ELSE w1
    [] t.kind = "drag" -> drag_(w, t.v)
    [] t.kind = "mask" -> [w EXCEPT !.entry[t.v].maskInDom = w.entry[t.v].autoplayMask]
    [] t.kind = "toggle" -> [w EXCEPT !.entry[t.v].eqPlay = t.playing]
    [] OTHER -> w

\* An error thrown by one step of a task is reported and the frame goes on.
Isolate(w) == [w EXCEPT !.thrown = FALSE, !.errors = @ \/ w.thrown]

RECURSIVE runMeasures(_, _, _)
runMeasures(w, tasks, i) ==
  IF i > Len(tasks) THEN w
  ELSE runMeasures(Isolate(measure(w, tasks[i])), tasks, i + 1)

RECURSIVE runMutates(_, _, _, _, _)
runMutates(w, tasks, i, viewerVisible, probe) ==
  IF i > Len(tasks) THEN w
  ELSE runMutates(Isolate(mutate(w, tasks[i], viewerVisible, probe)),
                  tasks, i + 1, viewerVisible, probe)

\* vsync.runScheduledTasks_: the animation frame
runScheduledTasks_(w, viewerVisible, probe) ==
  LET tasks == w.tasks_
      w1 == runMeasures([w EXCEPT !.tasks_ = <<>>], tasks, 1)
  IN runMutates(w1, tasks, 1, viewerVisible, probe)

Frame(viewerVisible, probe) ==
  /\ Idle
  /\ tasks_ # <<>> \/ delivered # {}
  /\ Commit(runScheduledTasks_([World EXCEPT !.delivered = {}], viewerVisible, probe))
  /\ UNCHANGED ratio

\* The oldest pending promise continuation runs.
RunMicro(viewerVisible, probe) ==
  /\ micro # <<>>
  /\ LET m == Head(micro)
         w == [World EXCEPT !.micro = Tail(@)]
     IN Commit(CASE m.kind = "loaded" -> videoLoaded(w, m.v, viewerVisible, probe)
                 [] m.kind = "autoplayBuilt" -> autoplayVideoBuiltThen(w, m.v, m.supports)
                 [] m.kind = "visibilityChanged" -> visibilityChangedThen(w, m.v, m.supports)
                 [] OTHER -> w)
  /\ UNCHANGED ratio

\* ------------------------------------------------------------ CustomControls
MaxMutates == 2
MaxAnimations == 2

\* The video manager's state, which the controls leave alone
managerVars == <<entries_, dockedVideo_, scrollListenerInstalled_, supportsAutoplayCache_,
                 entry, ratio, tasks_, micro, delivered, last>>

\* CustomControls.enableControls
enableControls(c) == [c EXCEPT !.controlsDisabled_ = FALSE, !.pointerEvents = ""]

\* CustomControls.disableControls
disableControls(c) == [c EXCEPT !.controlsDisabled_ = TRUE, !.pointerEvents = "none"]

\* CustomControls.hideControls and showControls: the callback goes to vsync.mutate
hideControls(c, override) == [c EXCEPT !.mutates = Append(@, [kind |-> "hide", override |-> override])]

showControls(c) == [c EXCEPT !.mutates = Append(@, [kind |-> "show", override |-> FALSE])]

\* The mutate callback of hideControls: the fade-out animations start
hideControlsMutate(c, override) ==
  IF (~c.isPlaying /\ ~override) \/ ~c.controlsShown_ THEN c
  ELSE [c EXCEPT !.opacity = 100, !.hiding = @ + 1]

\* thenAlways of the last fade-out animation
hideControlsDone(c) ==
  [c EXCEPT !.hiddenClass = TRUE, !.controlsShown_ = FALSE, !.opacity = 0, !.hiding = @ - 1]

\* The mutate callback of showControls: the hide timer restarts and, unless
\* the controls are shown or showing, the fade-in animations start
showControlsMutate(c) ==
  IF c.controlsDisabled_ THEN c
  ELSE LET c1 == [c EXCEPT !.controlsTimer_ = TRUE]
       IN IF c1.controlsShown_ \/ c1.controlsShowing_ THEN c1
          ELSE [c1 EXCEPT !.hiddenClass = FALSE, !.controlsShowing_ = TRUE,
                          !.opacity = 0, !.showing = @ + 1]

\* thenAlways of the last fade-in animation
showControlsDone(c) ==
  [c EXCEPT !.controlsShown_ = TRUE, !.controlsShowing_ = FALSE,
            !.controlsDisabled_ = FALSE, !.opacity = 100, !.showing = @ - 1]

\* CustomControls.toggleMinimalControls
toggleMinimalControls(c, enable) == [c EXCEPT !.minimal_ = enable]

RECURSIVE runControlMutates(_, _, _)
\* vsync runs the queued mutate callbacks in order
runControlMutates(c, tasks, i) ==
  IF i > Len(tasks) THEN c
  ELSE runControlMutates(IF tasks[i].kind = "show" THEN showControlsMutate(c)
                         ELSE hideControlsMutate(c, tasks[i].override),
                         tasks, i + 1)

ControlsStep(c) ==
  /\ Len(c.mutates) <= MaxMutates
  /\ c.hiding <= MaxAnimations
  /\ controls' = c
  /\ UNCHANGED <<target, nextPage>>

EnableControls ==
  /\ ControlsStep(enableControls(controls))
  /\ UNCHANGED managerVars

DisableControls ==
  /\ ControlsStep(disableControls(controls))
  /\ UNCHANGED managerVars

\* showControls() from the video entry or from a mousemove over the video
ShowControls ==
  /\ ControlsStep(showControls(controls))
  /\ UNCHANGED managerVars

HideControls(override) ==
  /\ ControlsStep(hideControls(controls, override))
  /\ UNCHANGED managerVars

\* mouseleave on the control container
MouseLeaveControls ==
  /\ ControlsStep(hideControls([controls EXCEPT !.controlsTimer_ = FALSE], FALSE))
  /\ UNCHANGED managerVars

\* click on the control container (toggleControls)
ClickControls ==
  /\ LET c == [controls EXCEPT !.controlsTimer_ = FALSE]
     IN ControlsStep(IF c.controlsShown_ THEN hideControls(c, TRUE) ELSE showControls(c))
  /\ UNCHANGED managerVars

\* The hide timeout set by showControls expires
ControlsTimerFires ==
  /\ controls.controlsTimer_
  /\ ControlsStep(hideControls([controls EXCEPT !.controlsTimer_ = FALSE], FALSE))
  /\ UNCHANGED managerVars

ToggleMinimalControls(enable) ==
  /\ controls.minimal_ # enable
  /\ ControlsStep(toggleMinimalControls(controls, enable))
  /\ UNCHANGED managerVars

\* The video starts or stops playing (entry_.isPlaying())
ControlsVideoPlays(playing) ==
  /\ controls.isPlaying # playing
  /\ ControlsStep([controls EXCEPT !.isPlaying = playing])
  /\ UNCHANGED managerVars

\* The animation frame: the queued mutate callbacks run
ControlsFrame ==
  /\ controls.mutates # <<>>
  /\ ControlsStep(runControlMutates([controls EXCEPT !.mutates = <<>>], controls.mutates, 1))
  /\ UNCHANGED managerVars

ShowAnimationEnds ==
  /\ controls.showing > 0
  /\ ControlsStep(showControlsDone(controls))
  /\ UNCHANGED managerVars

HideAnimationEnds ==
  /\ controls.hiding > 0
  /\ ControlsStep(hideControlsDone(controls))
  /\ UNCHANGED managerVars

NextControls ==
  \/ EnableControls
  \/ DisableControls
  \/ ShowControls
  \/ \E override \in BOOLEAN : HideControls(override)
  \/ MouseLeaveControls
  \/ ClickControls
  \/ ControlsTimerFires
  \/ \E enable \in BOOLEAN : ToggleMinimalControls(enable)
  \/ \E playing \in BOOLEAN : ControlsVideoPlays(playing)
  \/ ControlsFrame
  \/ ShowAnimationEnds
  \/ HideAnimationEnds

SpecControls == Init /\ [][NextControls]_vars

\* The controls, enabled, while they fade out (hideControls(true) was called
\* and its mutate callback has run); from here on nothing asks to hide them:
\* showControls() is called, the controls are disabled and enabled, frames
\* run and animations end.
FadingOut == hideControlsMutate(NewControls, TRUE)

InitShow ==
  /\ \E w \in {NewWorld} :
        /\ ratio = [v \in Videos |-> Ratio(0)]
        /\ entries_ = w.entries_
        /\ dockedVideo_ = w.dockedVideo_
        /\ scrollListenerInstalled_ = w.scrollListenerInstalled_
        /\ supportsAutoplayCache_ = w.supportsAutoplayCache_
        /\ entry = w.entry
        /\ tasks_ = w.tasks_
        /\ micro = w.micro
  /\ delivered = {}
  /\ last = [writes |-> <<>>, thrown |-> FALSE, result |-> "none", probed |-> FALSE,
              calls |-> <<>>]
  /\ controls \in {FadingOut, [FadingOut EXCEPT !.isPlaying = TRUE]}
  /\ target = NewTarget
  /\ nextPage = NewNextPage

NextShow ==
  \/ EnableControls
  \/ DisableControls
  \/ ShowControls
  \/ \E enable \in BOOLEAN : ToggleMinimalControls(enable)
  \/ \E playing \in BOOLEAN : ControlsVideoPlays(playing)
  \/ ControlsFrame
  \/ ShowAnimationEnds
  \/ HideAnimationEnds

SpecShow == InitShow /\ [][NextShow]_vars

\* ------------------------------------------------------ event-helper-listen
MaxEvents == 2

\* The capture flag of the third argument of add/removeEventListener: the
\* options object's where the browser reads options, else the boolean itself
CaptureOf(options) == options.capture

\* EventTarget.addEventListener: a listener is identified by type, callback
\* and capture flag, and is added unless it is there already
addEventListener(t, eventType, wrapped, options) ==
  [t EXCEPT !.listeners = @ \cup {[eventType |-> eventType, wrapped |-> wrapped,
                                    capture |-> CaptureOf(options)]}]

\* EventTarget.removeEventListener
removeEventListener(t, eventType, wrapped, options) ==
  LET gone == {l \in t.listeners : /\ l.eventType = eventType
                                    /\ l.wrapped = wrapped
                                    /\ l.capture = CaptureOf(options)}
  IN [t EXCEPT !.listeners = @ \ gone, !.removed = gone]

\* internalListenImplementation, whose returned function is kept as handle h
internalListenImplementation(t, h, eventType, opt_capture, opt_passive, passiveSupported) ==
  LET options == [supported |-> passiveSupported,
                  capture |-> opt_capture,
                  passive |-> passiveSupported /\ opt_passive]
      t1 == [t EXCEPT !.closure[h] = [made |-> TRUE, localElement |-> TRUE, wrapped |-> TRUE,
                                      eventType |-> eventType, options |-> options]]
  IN addEventListener(t1, eventType, h, options)

\* An unlisten function that always removes a bubbling-phase listener
MutUnlistenNoCapture(t, h) ==
  LET c == t.closure[h]
      t1 == IF c.localElement
            THEN removeEventListener(t, c.eventType, h, [c.options EXCEPT !.capture = FALSE])
            ELSE [t EXCEPT !.removed = {}]
  IN [t1 EXCEPT !.closure[h].localElement = FALSE, !.closure[h].wrapped = FALSE]

\* The function internalListenImplementation returns
unlisten(t, h) ==
  LET c == t.closure[h]
      t1 == IF c.localElement
            THEN removeEventListener(t, c.eventType, h, c.options)
            ELSE [t EXCEPT !.removed = {}]
  IN [t1 EXCEPT !.closure[h].localElement = FALSE, !.closure[h].wrapped = FALSE]

\* The element dispatches an event: the listeners of its type run
dispatchEvent(t, eventType) ==
  [t EXCEPT !.invoked = [h \in Handles |->
                           IF \E l \in t.listeners : l.eventType = eventType /\ l.wrapped = h
                           THEN @[h] + 1 ELSE @[h]]]

Listen(h, eventType, opt_capture, opt_passive, passiveSupported) ==
  /\ ~target.closure[h].made
  /\ target' = internalListenImplementation(target, h, eventType, opt_capture, opt_passive,
                                             passiveSupported)
  /\ UNCHANGED <<managerVars, controls, nextPage>>

Unlisten(h) ==
  /\ target.closure[h].made
  /\ target' = unlisten(target, h)
  /\ UNCHANGED <<managerVars, controls, nextPage>>

DispatchEvent(eventType) ==
  /\ \A h \in Handles : target.invoked[h] < MaxEvents
  /\ target' = dispatchEvent(target, eventType)
  /\ UNCHANGED <<managerVars, controls, nextPage>>

NextListen ==
  \/ \E h \in Handles, eventType \in EventTypes, opt_capture \in BOOLEAN,
        opt_passive \in BOOLEAN, passiveSupported \in BOOLEAN :
        Listen(h, eventType, opt_capture, opt_passive, passiveSupported)
  \/ \E h \in Handles : Unlisten(h)
  \/ \E eventType \in EventTypes : DispatchEvent(eventType)

SpecListen == Init /\ [][NextListen]_vars

\* ------------------------------------------------------------ amp-next-page
PRERENDER_VIEWPORT_COUNT == 3
MaxPauses == 2

\* The heights a fetched document may have (MOCK_NEXT_PAGE is 1036px high)
PageHeights == {1036, 500}

\* Page.fetch
fetch(n, i) ==
  IF n.pages_[i].state_ = "inserted" THEN [n EXCEPT !.pages_[i].fetchCalls = @ + 1]
  ELSE [n EXCEPT !.pages_[i].state_ = "fetching", !.pages_[i].fetchCalls = @ + 1]

\* A service that asks the page after the next one
MutFetchSkips(n, viewportsAway) ==
  IF n.lastFetchedPage_ + 2 <= Len(n.pages_) THEN fetch(n, n.lastFetchedPage_ + 2) ELSE n

\* NextPageService.maybeFetchNext
maybeFetchNext(n, viewportsAway) ==
  IF \E i \in 1..Len(n.pages_) : n.pages_[i].state_ = "fetching" THEN n
  ELSE IF viewportsAway > PRERENDER_VIEWPORT_COUNT THEN n
  ELSE IF n.lastFetchedPage_ + 1 <= Len(n.pages_) THEN fetch(n, n.lastFetchedPage_ + 1)
  ELSE n

\* The fetched document arrives and is attached, or the fetch fails
fetchDone(n, i, ok, height) ==
  IF ok
  THEN [n EXCEPT !.pages_[i].state_ = "inserted", !.pages_[i].shadowRoot = TRUE,
                 !.pages_[i].height = height, !.lastFetchedPage_ = i]
  ELSE [n EXCEPT !.pages_[i].state_ = "failed", !.lastFetchedPage_ = i]

\* A pause that leaves an empty placeholder
MutPauseFlat(n, i) ==
  [n EXCEPT !.pages_[i].pauseCalls = @ + 1, !.pages_[i].state_ = "paused",
            !.pages_[i].visibilityState_ = "hidden", !.pages_[i].shadowRoot = FALSE,
            !.pages_[i].placeholder = TRUE, !.pages_[i].height = 0]

\* Page.pause: the shadow document closes and a placeholder of its height
\* takes its place
pause(n, i) ==
  LET p == n.pages_[i]
  IN IF ~p.shadowRoot THEN [n EXCEPT !.pages_[i].pauseCalls = @ + 1]
     ELSE [n EXCEPT !.pages_[i].pauseCalls = @ + 1, !.pages_[i].state_ = "paused",
                    !.pages_[i].visibilityState_ = "hidden",
                    !.pages_[i].shadowRoot = FALSE, !.pages_[i].placeholder = TRUE,
                    !.pages_[i].placeholderHeight = p.height, !.pages_[i].height = 0]

\* Page.resume: the document is attached again in the placeholder's place
resume(n, i) ==
  LET p == n.pages_[i]
  IN [n EXCEPT !.pages_[i].resumeCalls = @ + 1, !.pages_[i].state_ = "inserted",
               !.pages_[i].shadowRoot = TRUE, !.pages_[i].placeholder = FALSE,
               !.pages_[i].height = p.placeholderHeight, !.pages_[i].placeholderHeight = 0]

RECURSIVE hideFrom(_, _, _)
\* The visible pages from i to upTo are hidden and paused
hideFrom(n, i, upTo) ==
  IF i > upTo THEN n
  ELSE hideFrom(IF n.pages_[i].visibilityState_ = "visible"
                THEN pause([n EXCEPT !.pages_[i].visibilityState_ = "hidden"], i)
                ELSE n,
                i + 1, upTo)

\* NextPageService.hidePreviousPages_(index, 0): the pages the user scrolled
\* past, those before page index going down and those after it going up
hidePreviousPages_(n, index) ==
  IF n.scrollDirection_ = "down" THEN hideFrom(n, 2, index - 1)
  ELSE hideFrom(n, index + 1, Len(n.pages_))

RECURSIVE resumeFrom(_, _, _)
resumeFrom(n, i, upTo) ==
  IF i > upTo THEN n
  ELSE resumeFrom(IF n.pages_[i].state_ = "paused" THEN resume(n, i) ELSE n, i + 1, upTo)

\* NextPageService.resumePausedPages_(index, 0): the paused pages next to
\* page index come back
resumePausedPages_(n, index) ==
  LET first == IF index - 1 < 2 THEN 2 ELSE index - 1
      upTo == IF index + 1 > Len(n.pages_) THEN Len(n.pages_) ELSE index + 1
  IN resumeFrom(n, first, upTo)

PagesStep(n) ==
  /\ nextPage' = n
  /\ UNCHANGED <<managerVars, controls, target>>

\* service.maybeFetchNext() with the element viewportsAway viewports away
MaybeFetchNext(viewportsAway) ==
  /\ \A i \in 1..Len(nextPage.pages_) : nextPage.pages_[i].fetchCalls < MaxPauses
  /\ PagesStep(maybeFetchNext(nextPage, viewportsAway))

FetchDone(i, ok, height) ==
  /\ nextPage.pages_[i].state_ = "fetching"
  /\ PagesStep(fetchDone(nextPage, i, ok, height))

\* An inserted page scrolls into view
PageSeen(i) ==
  /\ nextPage.pages_[i].state_ = "inserted"
  /\ nextPage.pages_[i].visibilityState_ # "visible"
  /\ PagesStep([nextPage EXCEPT !.pages_[i].visibilityState_ = "visible"])

ScrollDirection(direction) ==
  /\ nextPage.scrollDirection_ # direction
  /\ PagesStep([nextPage EXCEPT !.scrollDirection_ = direction])

HidePreviousPages(index) ==
  /\ \A i \in 1..Len(nextPage.pages_) : nextPage.pages_[i].pauseCalls < MaxPauses
  /\ PagesStep(hidePreviousPages_(nextPage, index))

ResumePausedPages(index) ==
  /\ \E i \in 1..Len(nextPage.pages_) : nextPage.pages_[i].state_ = "paused"
  /\ PagesStep(resumePausedPages_(nextPage, index))

NextPages ==
  \/ \E viewportsAway \in {2, 4} : MaybeFetchNext(viewportsAway)
  \/ \E i \in 2..(ConfiguredPages + 1), ok \in BOOLEAN, height \in PageHeights :
        FetchDone(i, ok, height)
  \/ \E i \in 2..(ConfiguredPages + 1) : PageSeen(i)
  \/ \E direction \in {"up", "down"} : ScrollDirection(direction)
  \/ \E index \in 1..(ConfiguredPages + 1) : HidePreviousPages(index)
  \/ \E index \in 1..(ConfiguredPages + 1) : ResumePausedPages(index)

SpecPages == Init /\ [][NextPages]_vars

\* ---------------------------------------------------------- specifications
\* One dockable video and one on an unsupported platform, from the manager's
\* construction on: registration, loading, playback, scrolling and resizing.
DockVideos == {"b", "u"}

Next ==
  \/ \E v \in DockVideos : Register(v, FALSE)
  \/ \E v \in DockVideos : Load(v)
  \/ \E v \in DockVideos : Playing(v)
  \/ \E v \in DockVideos : Pause(v)
  \/ \E v \in DockVideos, p \in PosInputs : PositionChanged(v, p)
  \/ Resize
  \/ \E v \in DockVideos : GetPlayingState(v)
  \/ \E v \in DockVideos : UserInteractedWithAutoPlay(v)
  \/ Frame(TRUE, FALSE)
  \/ RunMicro(TRUE, FALSE)

Spec == Init /\ [][Next]_vars

\* Two dockable videos that the manager holds, built and loaded: the program
\* state after register("b"), register("c"), the first frame, both LOAD
\* events and the frame after them.  Both scroll out over the top edge.
TwoVideos == {"b", "c"}

\* A registered video after its first frame (videoBuilt_'s tasks have run),
\* its LOAD event and the frame after it.
LoadedEntry(v) ==
  [NewEntry(v) EXCEPT !.actions = TRUE,
                      !.initialRect_ = BoundingClientRect(v),
                      !.loadListener = FALSE,
                      !.loaded_ = TRUE,
                      !.internalElement_ = TRUE]

TwoLoaded ==
  [NewWorld EXCEPT !.entries_ = [null |-> FALSE, list |-> <<"b", "c">>],
                   !.entry["b"] = LoadedEntry("b"),
                   !.entry["c"] = LoadedEntry("c")]

InitTwo == StartsAs(TwoLoaded)

TopPos == {q \in PosInputs : q.relativePos # "bottom"}

NextTwo ==
  \/ \E v \in TwoVideos : Playing(v)
  \/ \E v \in TwoVideos : Pause(v)
  \/ \E v \in TwoVideos, p \in TopPos : PositionChanged(v, p)
  \/ Resize
  \/ Frame(TRUE, FALSE)

SpecTwo == InitTwo /\ [][NextTwo]_vars

\* A video half a viewport below the document's top ("c") and one taller than
\* the viewport ("t"), loaded and playing, scrolled out over both edges.
RoomVideos == {"c", "t"}

RoomLoaded ==
  [NewWorld EXCEPT !.entries_ = [null |-> FALSE, list |-> <<"c", "t">>],
                   !.entry["c"] = [LoadedEntry("c") EXCEPT !.isPlaying_ = TRUE],
                   !.entry["t"] = [LoadedEntry("t") EXCEPT !.isPlaying_ = TRUE]]

InitRoom == StartsAs(RoomLoaded)

\* The tall video covering the viewport from its top edge, cut by the top
\* edge, cut by the bottom edge, and out of view on either side
TallPos ==
  { PosEntry(NullRect, "top"),
    PosEntry(NullRect, "bottom"),
    PosEntry(layoutRectLtwh(VideoLeft, 0, VideoWidth, TallHeight), "inside"),
    PosEntry(layoutRectLtwh(VideoLeft, -100, VideoWidth, TallHeight), "top"),
    PosEntry(layoutRectLtwh(VideoLeft, 300, VideoWidth, TallHeight), "bottom") }

RoomPos(v) == IF v = "t" THEN TallPos ELSE PosInputs

NextRoom ==
  \/ \E v \in RoomVideos : Playing(v)
  \/ \E v \in RoomVideos : Pause(v)
  \/ \E v \in RoomVideos : \E p \in RoomPos(v) : PositionChanged(v, p)
  \/ Resize
  \/ Frame(TRUE, FALSE)

SpecRoom == InitRoom /\ [][NextRoom]_vars

\* One dockable video, built, loaded and playing, that scrolls out over the
\* top edge and back, and is dragged while it is docked.
OnePlaying ==
  [NewWorld EXCEPT !.entries_ = [null |-> FALSE, list |-> <<"b">>],
                   !.entry["b"] = [LoadedEntry("b") EXCEPT !.isPlaying_ = TRUE]]

InitDrag == StartsAs(OnePlaying)

DragPos == {q \in TopPos : q.positionRect.null \/ q.relativePos = "inside"}

NextDrag ==
  \/ Playing("b")
  \/ Pause("b")
  \/ \E p \in DragPos : PositionChanged("b", p)
  \/ \E at \in MaskAt(entry["b"]), off \in DownOffsets : MouseDown("b", at, off)
  \/ MouseUp
  \/ \E p \in MousePoints : MouseMove(p)
  \/ SnapDone("b")
  \/ Frame(TRUE, FALSE)

SpecDrag == InitDrag /\ [][NextDrag]_vars

\* One docked video picked up at the middle of its mask and let go with its
\* center in each quarter of the viewport and on the viewport's center.
SnapOffsets == {Pt(ScaledWidth \div 2, ScaledHeight \div 2)}

SnapPoints == {Pt(10, 10), Pt(10, 700), Pt(700, 700),
               Pt(ViewportWidth \div 2, ViewportHeight \div 2)}

NextSnap ==
  \/ \E p \in DragPos : PositionChanged("b", p)
  \/ \E at \in MaskAt(entry["b"]), off \in SnapOffsets : MouseDown("b", at, off)
  \/ MouseUp
  \/ \E p \in SnapPoints : MouseMove(p)
  \/ SnapDone("b")
  \/ Frame(TRUE, FALSE)

SpecSnap == InitDrag /\ [][NextSnap]_vars

\* One dockable video, loaded and playing, on an LTR page ("b") or on an RTL
\* page ("r"), scrolled out over either edge and back and dragged to a corner.
CornerVideos == {"b", "r"}

CornerLoaded(v) ==
  [NewWorld EXCEPT !.entries_ = [null |-> FALSE, list |-> <<v>>],
                   !.entry[v] = [LoadedEntry(v) EXCEPT !.isPlaying_ = TRUE,
                                                       !.pageDir_ = PageDir(v)]]

InitCorner == \E v \in CornerVideos : StartsAs(CornerLoaded(v))

EdgePos == {q \in PosInputs : q.positionRect.null \/ q.relativePos = "inside"}
CornerPoints == {Pt(10, 700), Pt(700, 10)}

NextCorner ==
  \/ \E v \in CornerVideos, p \in EdgePos : PositionChanged(v, p)
  \/ \E v \in CornerVideos : \E at \in MaskAt(entry[v]), off \in SnapOffsets : MouseDown(v, at, off)
  \/ MouseUp
  \/ \E p \in CornerPoints : MouseMove(p)
  \/ \E v \in CornerVideos : SnapDone(v)
  \/ Frame(TRUE, FALSE)

SpecCorner == InitCorner /\ [][NextCorner]_vars

\* One docked video that has been dragged partly over the right edge of the
\* viewport, held there for two ticks and let go; it snaps back and is picked
\* up again meanwhile.
GrabPoints == {Pt(790, 700), Pt(400, 400)}

\* The events that lead there, applied one after the other to video "b":
\* a position callback, a touch on the mask, a move of the pointer, a tick of
\* the drag loop, the end of the touch.
GrabSteps ==
  << [op |-> "position",
      pos |-> PosEntry(layoutRectLtwh(VideoLeft, 200, VideoWidth, VideoHeight), "inside")],
     [op |-> "position", pos |-> PosEntry(NullRect, "top")],
     [op |-> "down",
      at |-> Pt(CornerPos("top_right", Pt(0, 0)).x + ScaledWidth \div 2,
                CornerPos("top_right", Pt(0, 0)).y + ScaledHeight \div 2)],
     [op |-> "move", at |-> Pt(790, 700)],
     [op |-> "tick"],
     [op |-> "tick"],
     [op |-> "up"] >>

RECURSIVE Replay(_, _)
Replay(w, steps) ==
  IF steps = <<>> THEN w
  ELSE
    LET s == Head(steps) IN
    CHOOSE r \in
      {Replay(w1, Tail(steps)) : w1 \in {
         IF s.op = "position" THEN onDockableVideoPositionChanged(w, "b", s.pos)
         ELSE IF s.op = "down"
           THEN mouse_([w EXCEPT !.entry["b"].isTouched_ = TRUE], "b", s.at, TRUE)
         ELSE IF s.op = "move"
           THEN mouse_([w EXCEPT !.entry["b"].isDragging_ = TRUE], "b", s.at, FALSE)
         ELSE IF s.op = "tick"
           THEN drag_([w EXCEPT !.tasks_ = <<>>], "b")
         ELSE [w EXCEPT !.entry["b"].isTouched_ = FALSE,
                        !.entry["b"].isDragging_ = FALSE]}} : TRUE

Released == Replay(OnePlaying, GrabSteps)

InitGrab == \E w \in {Released} : StartsAs(w)

NextGrab ==
  \/ \E p \in DragPos : PositionChanged("b", p)
  \/ \E at \in MaskAt(entry["b"]), off \in SnapOffsets : MouseDown("b", at, off)
  \/ MouseUp
  \/ \E p \in GrabPoints \cup {entry["b"].dragCoordinates_.mouse} : MouseMove(p)
  \/ SnapDone("b")
  \/ Frame(TRUE, FALSE)

SpecGrab == InitGrab /\ [][NextGrab]_vars

\* One dockable video, playing, that scrolls out over the top edge by a
\* pixel, by quarters of its height and to a pixel short of all of it, and back.
ScalePos ==
  DragPos \cup { PosEntry(layoutRectLtwh(VideoLeft, -t, VideoWidth, VideoHeight), "top") :
                    t \in {1, 50, 100, 150, VideoHeight - 1} }

NextScale ==
  \/ Playing("b")
  \/ Pause("b")
  \/ \E p \in ScalePos : PositionChanged("b", p)
  \/ Frame(TRUE, FALSE)

SpecScale == InitDrag /\ [][NextScale]_vars

\* The interactive autoplay video, from the manager's construction on:
\* visibility tracking and autoplay.
Ratios == {NaNRatio, Ratio(0), Ratio(74), Ratio(75), Ratio(76), Ratio(100)}

NextVis ==
  \/ \E probe \in ProbeInputs : Register("a", probe)
  \/ Load("a")
  \/ \E viewerVisible \in BOOLEAN, probe \in ProbeInputs : Reload("a", viewerVisible, probe)
  \/ Playing("a")
  \/ Pause("a")
  \/ Ended("a")
  \/ \E r \in Ratios : SetRatio("a", r)
  \/ Scroll
  \/ Visibility("a")
  \/ Click("a")
  \/ \E viewerVisible \in BOOLEAN, probe \in ProbeInputs : Frame(viewerVisible, probe)
  \/ \E viewerVisible \in BOOLEAN, probe \in ProbeInputs : RunMicro(viewerVisible, probe)

SpecVis == Init /\ [][NextVis]_vars

\* The interactive autoplay video in a visible viewer, scrolled fully in and
\* fully out of view, played, paused and tapped, and asked for its state.
InOut == {Ratio(0), Ratio(100)}

NextPlay ==
  \/ \E probe \in ProbeInputs : Register("a", probe)
  \/ Load("a")
  \/ Playing("a")
  \/ Pause("a")
  \/ \E r \in InOut : SetRatio("a", r)
  \/ Scroll
  \/ Click("a")
  \/ GetPlayingState("a")
  \/ UserInteractedWithAutoPlay("a")
  \/ \E probe \in ProbeInputs : Frame(TRUE, probe)
  \/ \E probe \in ProbeInputs : RunMicro(TRUE, probe)

SpecPlay == Init /\ [][NextPlay]_vars

\* The same video, which also docks, scrolled out over the top edge and back
\* while it plays by autoplay, by hand, or is paused.
NextAutoDock ==
  \/ Register("a", TRUE)
  \/ Load("a")
  \/ Playing("a")
  \/ Pause("a")
  \/ \E r \in InOut : SetRatio("a", r)
  \/ Scroll
  \/ Click("a")
  \/ \E p \in DragPos : PositionChanged("a", p)
  \/ Frame(TRUE, TRUE)
  \/ RunMicro(TRUE, TRUE)

SpecAutoDock == Init /\ [][NextAutoDock]_vars

\* The autoplay capability probe: called by the autoplay video's entry and
\* directly, in lite and full viewers, and reset by the test hook.
NextProbe ==
  \/ \E probe \in ProbeInputs : Register("a", probe)
  \/ Load("a")
  \/ \E r \in InOut : SetRatio("a", r)
  \/ Scroll
  \/ \E isLiteViewer \in BOOLEAN, probe \in ProbeInputs :
        SupportsAutoplay(isLiteViewer, probe)
  \/ ClearSupportsAutoplayCacheForTesting
  \/ \E probe \in ProbeInputs : Frame(TRUE, probe)
  \/ \E probe \in ProbeInputs : RunMicro(TRUE, probe)

SpecProbe == Init /\ [][NextProbe]_vars

\* ------------------------------------------------------------- properties
\* Entry v has just been handed a position over the top edge that would dock
\* it were the slot free: it is loaded, playing manually and was in view.
WantsToDock(v) ==
  /\ v \in delivered
  /\ entry[v].loaded_ /\ entry[v].isPlaying_ /\ entry[v].hasBeenInViewBefore
  /\ entry[v].lastPosition_.relativePos = "top"
  /\ entry[v].visibleHeight_ = 0
  /\ entry[v].minimizePosition_ # "inline"

\* C1: in every reachable state of a manager holding two dockable videos, at
\* most one entry has dockingState_ DOCKING or DOCKED.
C1_AtMostOneDocked ==
  Cardinality({v \in Videos : entry[v].dockingState_ # "inline"}) <= 1

C1_Witness ==
  /\ entry["c"].dockingState_ = "docked" /\ "c" \notin delivered
  /\ WantsToDock("b")

\* C2: while the docked slot holds another entry, canDock(b) is false and a
\* position change delivered to b finds b INLINE and leaves it INLINE; in the
\* state that follows the release of the slot canDock(b) is true.
C2_SlotHeldRejectsOthers ==
  [][\A b \in TwoVideos :
       /\ dockedVideo_ \notin {Null, b} =>
            /\ ~canDock(World, b)
            /\ \A p \in TopPos :
                 PositionChanged(b, p) =>
                   entry[b].dockingState_ = "inline" /\ entry'[b].dockingState_ = "inline"
       /\ (dockedVideo_ # Null /\ dockedVideo_' = Null) =>
            canDock([World EXCEPT !.dockedVideo_ = dockedVideo_'], b)]_vars

C2_Witness ==
  /\ dockedVideo_ = "b" /\ entry["b"].dockingState_ = "docking" /\ "b" \notin delivered
  /\ WantsToDock("c")
  /\ entry["c"].dockingState_ = "inline"

\* Every change of dockingState_ made by the last handler is one of edges.
ChangesWithin(edges) ==
  \A i \in 1..Len(last.writes) :
     last.writes[i][2] # last.writes[i][3] =>
       <<last.writes[i][2], last.writes[i][3]>> \in edges

\* C3 (as the code has it): dockingState_ changes only INLINE to DOCKING,
\* DOCKING to DOCKED, DOCKED to DOCKING (a partial scroll back), and DOCKED
\* or DOCKING to INLINE; INLINE never becomes DOCKED without DOCKING between.
C3_Amended ==
  ChangesWithin({<<"inline", "docking">>, <<"docking", "docked">>,
                 <<"docked", "docking">>,
                 <<"docked", "inline">>, <<"docking", "inline">>})

C3_Witness ==
  \E i \in 1..Len(last.writes) : last.writes[i] = <<"b", "docked", "docking">>

\* C3 as stated: no DOCKED to DOCKING.
C3_Original ==
  ChangesWithin({<<"inline", "docking">>, <<"docking", "docked">>,
                 <<"docked", "inline">>, <<"docking", "inline">>})

\* C4 (as the code has it): an entry out of INLINE has a corner, and an
\* INLINE entry whose last position was inside the viewport (or that has had
\* none) has minimizePosition_ INLINE.
C4_Amended ==
  \A v \in Videos :
    /\ entry[v].dockingState_ # "inline" => entry[v].minimizePosition_ # "inline"
    /\ ( /\ entry[v].dockingState_ = "inline"
         /\ entry[v].lastPosition_.null \/ entry[v].lastPosition_.relativePos = "inside" )
       => entry[v].minimizePosition_ = "inline"

C4_Witness ==
  /\ last.writes = << <<"b", "docked", "inline">> >>
  /\ entry["b"].lastPosition_.relativePos = "inside"
  /\ entry["b"].minimizePosition_ = "inline"

\* C4 as stated: every INLINE entry has minimizePosition_ INLINE.
C4_Original ==
  \A v \in Videos :
    entry[v].dockingState_ = "inline" => entry[v].minimizePosition_ = "inline"

\* C5 as stated: the drag state of an entry (listeners flagged installed and
\* the dragging mask present) exists if and only if the entry is DOCKED.
C5_DragStateIffDocked ==
  \A v \in Videos :
    (entry[v].dragListenerInstalled_ /\ entry[v].draggingMask_)
      <=> entry[v].dockingState_ = "docked"

\* C6 as stated: at most one drag tick of an entry is pending.
C6_OneDragTickPending ==
  \A v \in Videos :
    Cardinality({i \in 1..Len(tasks_) : tasks_[i].kind = "drag" /\ tasks_[i].v = v}) <= 1

\* C7 as stated: the updateVisibility calls issued while the intersection
\* ratio is unchanged produce at most one videoVisibilityChanged_ call.
C7_AtMostOneNotification ==
  \A v \in Videos : entry[v].notifications <= 1

\* C8: a frame that runs the measure step of updateVisibility leaves
\* isVisible_ equal to (r*100 >= 75), a ratio that is not finite counting as 0.
C8_MeasureSetsVisible ==
  [][\A viewerVisible \in BOOLEAN, probe \in BOOLEAN :
       ( /\ \E i \in 1..Len(tasks_) : tasks_[i].kind = "visibility" /\ tasks_[i].v = "a"
         /\ Frame(viewerVisible, probe) )
       => entry'["a"].isVisible_ =
            ((IF ratio["a"].finite THEN ratio["a"].times100 ELSE 0) >= 75)]_vars

C8_Witness ==
  /\ ratio["a"] = Ratio(75)
  /\ entry["a"].notifications = 1
  /\ entry["a"].isVisible_

DragGuard(e) ==
  /\ e.loaded_ /\ e.internalElement_ /\ e.dockClass
  /\ e.visibleHeight_ = 0
  /\ e.dockingState_ = "docked"

\* The frame at hand runs one drag tick of "b", dismissed and not dragged.
DismissedTick ==
  /\ tasks_ = <<DragTask("b")>>
  /\ entry["b"].isDismissed_ /\ ~entry["b"].isDragging_
  /\ Frame(TRUE, FALSE)

\* The video was paused, is INLINE, the slot is free, the flag is cleared
\* and no tick is queued.
Dismissal ==
  /\ entry["b"].pausePending
  /\ entry["b"].dockingState_ = "inline"
  /\ dockedVideo_ = Null
  /\ ~entry["b"].isDismissed_
  /\ tasks_ = <<>>

\* C10 (as the code has it): a drag tick that passes its guard (the entry is
\* still loaded, DOCKED and fully minimized) with the dismissed flag set and
\* no drag going on pauses the video, returns the entry to INLINE, releases
\* the slot, clears the flag and does not reschedule.
C10_Amended ==
  [][(DismissedTick /\ DragGuard(entry["b"])) => Dismissal']_vars

C10_Witness ==
  /\ last.writes = << <<"b", "docked", "inline">> >>
  /\ Dismissal

\* C10 as stated: every drag tick that runs dismissed and not dragged.
C10_Original ==
  [][DismissedTick => Dismissal']_vars

\* C11: once the entry is no longer draggable (not loaded, no internal
\* element, visible height not 0, dock class absent or state not DOCKED), a
\* frame that runs its pending drag ticks leaves the entry untouched (drag
\* coordinates, styles, every other field) and schedules no further tick.
C11_StaleTickReturns ==
  [][(/\ tasks_ # <<>>
      /\ \A i \in 1..Len(tasks_) : tasks_[i] = DragTask("b")
      /\ ~DragGuard(entry["b"])
      /\ Frame(TRUE, FALSE))
     => /\ entry'["b"] = entry["b"]
        /\ tasks_' = <<>>
        /\ dockedVideo_' = dockedVideo_]_vars

\* A tick has just run on an entry that was dismissed and then scrolled back
\* inline: the loop ended with the entry as the undock left it.
C11_Witness ==
  /\ entry["b"].dockingState_ = "inline"
  /\ entry["b"].isDismissed_
  /\ entry["b"].style = {}
  /\ tasks_ = <<>>
  /\ ~last.thrown

\* C12: register(video) for a video whose supportsPlatform() is false adds
\* no entry: the registry (contents and order), the docked slot, the scroll
\* listener, every entry's listeners and fields, the pending tasks and
\* continuations are as before, and nothing is thrown. Only the video's
\* common actions are registered.
C12_UnsupportedNotRegistered ==
  [][\A v \in Videos :
       (~SupportsPlatform(v) /\ Register(v, FALSE))
       => /\ entries_' = entries_
          /\ dockedVideo_' = dockedVideo_
          /\ scrollListenerInstalled_' = scrollListenerInstalled_
          /\ entry' = [entry EXCEPT ![v].actions = TRUE]
          /\ tasks_' = tasks_
          /\ micro' = micro
          /\ ~last'.thrown]_vars

\* register was called for the unsupported video after a supported one was
\* registered: the registry still holds the supported one alone.
C12_Witness ==
  /\ entry["u"].actions
  /\ ~entries_.null
  /\ entries_.list = <<"b">>

\* C13: getPlayingState(video) and userInteractedWithAutoPlay(video) for a
\* video that is not registered fail with the developer message 'video is
\* not registered to this video manager', whatever the manager's state.
C13_UnregisteredFailsByAssert ==
  [][\A v \in Videos :
       (~Registered(v) /\ (GetPlayingState(v) \/ UserInteractedWithAutoPlay(v)))
       => last'.thrown /\ last'.result = NotRegistered]_vars

\* C14: getPlayingState of a registered video reads three flags and changes
\* nothing: PAUSED when isPlaying_ is false, PLAYING_AUTO when isPlaying_ and
\* playCalledByAutoplay_ are true and userInteractedWithAutoPlay_ is false,
\* PLAYING_MANUAL in every other case.
C14_PlayingStateOfFlags ==
  [][(Registered("a") /\ GetPlayingState("a"))
     => /\ ~last'.thrown
        /\ last'.result =
             (CASE ~entry["a"].isPlaying_ -> "paused"
                [] /\ entry["a"].isPlaying_
                   /\ entry["a"].playCalledByAutoplay_
                   /\ ~entry["a"].userInteractedWithAutoPlay_ -> "playing_auto"
                [] OTHER -> "playing_manual")
        /\ entry' = entry
        /\ tasks_' = tasks_]_vars

\* The state was asked for a video that autoplay started and the user then
\* tapped: it is reported as played manually.
C14_Witness ==
  /\ last.result = "playing_manual"
  /\ entry["a"].isPlaying_
  /\ entry["a"].playCalledByAutoplay_
  /\ entry["a"].userInteractedWithAutoPlay_

\* C15: while a result is cached no step runs the probe or changes the
\* cache, except clearSupportsAutoplayCacheForTesting; a supportsAutoplay
\* call made then returns the cached result whatever its lite-viewer
\* argument and whatever the probe would find.
C15_ProbeCachedUntilReset ==
  [][supportsAutoplayCache_ # "null"
     => /\ ~last'.probed
        /\ supportsAutoplayCache_' # supportsAutoplayCache_
             => ClearSupportsAutoplayCacheForTesting
        /\ \A isLiteViewer, probe \in BOOLEAN :
             (LET w == supportsAutoplay(World, isLiteViewer, probe)
              IN /\ w.supportsAutoplayCache_ = supportsAutoplayCache_
                 /\ ~w.probed)
        /\ \A isLiteViewer \in BOOLEAN :
             SupportsAutoplay(isLiteViewer, FALSE)
             => last'.result = (IF supportsAutoplayCache_ = "yes" THEN "true" ELSE "false")]_vars

\* A direct call found autoplay supported without running the probe: the
\* result came from the cache.
C15_Witness ==
  /\ supportsAutoplayCache_ = "yes"
  /\ last.result = "true"
  /\ ~last.probed

\* C16: userInteractedWithAutoPlay_ starts false, becomes true only by a tap
\* on the autoplay mask, and once true is never false again.
C16_InteractionOneWay ==
  /\ ~entry["a"].userInteractedWithAutoPlay_
  /\ [][/\ entry["a"].userInteractedWithAutoPlay_
            => entry'["a"].userInteractedWithAutoPlay_
        /\ (~entry["a"].userInteractedWithAutoPlay_
            /\ entry'["a"].userInteractedWithAutoPlay_) => Click("a")]_vars

\* After the tap the video was scrolled out, paused and asked: the flag is
\* still set.
C16_Witness ==
  /\ entry["a"].userInteractedWithAutoPlay_
  /\ ~entry["a"].isPlaying_
  /\ ratio["a"] = Ratio(0)
  /\ last.result = "true"

\* C17: when the probe found autoplay unsupported, play(isAutoplay = true)
\* is never invoked on the autoplay video (playCalledByAutoplay_, set with
\* it, stays false) whatever its visibility does, and once the build's
\* continuation has run the controls hidden at build are shown.
C17_UnsupportedNeverAutoplays ==
  supportsAutoplayCache_ = "no"
  => /\ ~entry["a"].playCalledByAutoplay_
     /\ ~entry["a"].autoplayMask
     /\ (Registered("a") /\ micro = <<>>) => entry["a"].controls

\* Autoplay is unsupported and the loaded video's change to visible has
\* been notified and handled.
C17_Witness ==
  /\ supportsAutoplayCache_ = "no"
  /\ entry["a"].loaded_
  /\ entry["a"].isVisible_
  /\ entry["a"].notifications = 1
  /\ tasks_ = <<>>
  /\ micro = <<>>
  /\ entry["a"].controls

\* C18: for the loaded autoplay video in a visible viewer, autoplay supported
\* and no tap yet: a frame in which isVisible_ flips queues the visibility
\* continuation, the continuation calls play(true) when the video is visible
\* and pause() when it is not, and a video playing after play(true) is
\* reported PLAYING_AUTO.
CanAutoplay ==
  /\ entry["a"].loaded_
  /\ entry["a"].hasAutoplay
  /\ ~entry["a"].userInteractedWithAutoPlay_
  /\ supportsAutoplayCache_ = "yes"

VisibilityContinuation == [kind |-> "visibilityChanged", v |-> "a", supports |-> TRUE]

C18_AutoplayFollowsVisibility ==
  [][CanAutoplay
     => /\ (Frame(TRUE, FALSE) /\ entry'["a"].isVisible_ # entry["a"].isVisible_)
           => (micro' # <<>> /\ Head(micro') = VisibilityContinuation)
        /\ (micro # <<>> /\ Head(micro) = VisibilityContinuation /\ RunMicro(TRUE, FALSE))
           => /\ last'.calls = IF entry["a"].isVisible_ THEN <<"play(true)">> ELSE <<"pause">>
              /\ entry["a"].isVisible_ => entry'["a"].playCalledByAutoplay_
        /\ (GetPlayingState("a") /\ entry["a"].isPlaying_ /\ entry["a"].playCalledByAutoplay_)
           => last'.result = "playing_auto"]_vars

\* The video that autoplay started has left the view and pause() was called.
C18_Witness ==
  /\ CanAutoplay
  /\ last.calls = <<"pause">>
  /\ entry["a"].playCalledByAutoplay_
  /\ entry["a"].isPlaying_
  /\ ~entry["a"].isVisible_

\* C19: unregisterDocked() empties the docked slot and sets
\* hasBeenInViewBefore to false on every registered entry, and changes
\* nothing else: called in any reachable state it leaves every other entry
\* field, the registry, the tasks and the listeners as they were; and a
\* position event of one video that releases the slot leaves the other
\* video's entry as it was but for that flag.
C19_UnregisterDockedFrame ==
  [][/\ LET w == unregisterDocked(World)
        IN /\ w.dockedVideo_ = Null
           /\ \A v \in Videos : Registered(v) => ~w.entry[v].hasBeenInViewBefore
           /\ \A v \in Videos :
                [w.entry[v] EXCEPT !.hasBeenInViewBefore = entry[v].hasBeenInViewBefore]
                  = entry[v]
           /\ w.entries_ = entries_
           /\ w.scrollListenerInstalled_ = scrollListenerInstalled_
           /\ w.supportsAutoplayCache_ = supportsAutoplayCache_
           /\ w.tasks_ = tasks_
           /\ w.micro = micro
           /\ ~w.thrown
     /\ \A p \in TopPos :
          (PositionChanged("b", p) /\ dockedVideo_ = "b" /\ dockedVideo_' = Null)
          => entry'["c"] = [entry["c"] EXCEPT !.hasBeenInViewBefore = FALSE]]_vars

\* The docked video was scrolled back in and released the slot: the other
\* video, last reported fully inside the viewport, has lost its flag.
C19_Witness ==
  /\ \E i \in 1..Len(last.writes) :
        last.writes[i][1] = "b" /\ last.writes[i][2] # "inline" /\ last.writes[i][3] = "inline"
  /\ dockedVideo_ = Null
  /\ ~entry["c"].lastPosition_.null
  /\ entry["c"].lastPosition_.relativePos = "inside"
  /\ entry["c"].visibleHeight_ = VideoHeight
  /\ ~entry["c"].hasBeenInViewBefore
  /\ ~entry["b"].hasBeenInViewBefore

\* C20: a position event that animates the dock leaves the entry DOCKED
\* exactly when the scroll-mapped scale equals DOCK_SCALE, which is exactly
\* when the visible height is 0, and DOCKING while the scale is above
\* DOCK_SCALE; the scale written is the mapped one; and a 200 pixel high
\* video in a viewport 800 high, at visible height 0 in a top corner of a
\* left-to-right page, is DOCKED at scale 0.6 with translateY equal to
\* DOCK_MARGIN (20).
C20_DockedAtDockScale ==
  [][\A p \in ScalePos :
       (PositionChanged("b", p) /\ entry'["b"].dockingState_ # "inline")
       => LET e == entry'["b"] IN
          /\ e.scaleAt = DockingScale(e)
          /\ e.dockingState_ = "docked" <=> e.scaleAt = DOCK_SCALE * 10
          /\ e.dockingState_ = "docking" <=> e.scaleAt > DOCK_SCALE * 10
          /\ e.scaleAt = DOCK_SCALE * 10 <=> e.visibleHeight_ = 0
          /\ (/\ e.visibleHeight_ = 0
              /\ e.initialRect_.height = 200
              /\ ViewportHeight = 800
              /\ e.pageDir_ = "ltr"
              /\ e.minimizePosition_ \in {"top_left", "top_right"})
             => /\ e.dockingState_ = "docked"
                /\ e.minimizePosition_ = "top_right"
                /\ e.scaleAt = 600
                /\ e.transformAt.y = DOCK_MARGIN
                /\ DOCK_MARGIN = 20]_vars

\* The video is a pixel short of minimized: still DOCKING, scale just above
\* DOCK_SCALE.
NearlyDocked ==
  /\ entry["b"].dockingState_ = "docking"
  /\ entry["b"].visibleHeight_ = 1
  /\ entry["b"].scaleAt = 602
  /\ last.writes # <<>>

\* The scenario: the video that was DOCKING is minimized in the top right
\* corner.
C20_Witness ==
  /\ last.writes = << <<"b", "docking", "docked">> >>
  /\ entry["b"].dockingState_ = "docked"
  /\ entry["b"].visibleHeight_ = 0
  /\ entry["b"].minimizePosition_ = "top_right"
  /\ entry["b"].scaleAt = 600
  /\ entry["b"].transformAt.y = 20

\* C21: the docking scale, scrollMap_(DOCK_SCALE, 1), is non-decreasing in the
\* visible height over 0..initial height, is DOCK_SCALE at visible height 0
\* and 1 at the initial height; and the scale a position event writes is that
\* function of the visible height the event measured.
ScaleAtHeight(h) == DockingScale([entry["b"] EXCEPT !.visibleHeight_ = h])

C21_ScaleMonotonic ==
  [][LET e == entry'["b"]
         height == e.initialRect_.height
     IN /\ height = VideoHeight
        /\ e.visibleHeight_ \in 0..height
        /\ \A h \in 0..(height - 1) : ScaleAtHeight(h) <= ScaleAtHeight(h + 1)
        /\ ScaleAtHeight(0) = DOCK_SCALE * 10
        /\ ScaleAtHeight(height) = 1000
        /\ e.dockingState_ # "inline" => e.scaleAt = ScaleAtHeight(e.visibleHeight_)
        /\ (entry["b"].dockingState_ # "inline" /\ e.dockingState_ # "inline"
            /\ entry["b"].visibleHeight_ <= e.visibleHeight_)
           => entry["b"].scaleAt <= e.scaleAt]_vars

\* The video was scrolled from half out to three quarters in and its scale
\* grew with its visible height.
C21_Witness ==
  /\ entry["b"].dockingState_ = "docking"
  /\ entry["b"].visibleHeight_ = 150
  /\ entry["b"].scaleAt = 900
  /\ last.writes = << <<"b", "docking", "docking">> >>

\* The corner of the viewport quarter that holds the point (cx, cy)
QuadrantCorner(cx, cy) ==
  IF 2 * cx >= ViewportWidth
  THEN IF 2 * cy >= ViewportHeight THEN "bottom_right" ELSE "top_right"
  ELSE IF 2 * cy >= ViewportHeight THEN "bottom_left" ELSE "top_left"

\* The center of the minimized element of entry e
DragCenter(e) ==
  Pt(e.dragCoordinates_.position.x + ScaledWidth \div 2,
     e.dragCoordinates_.position.y + ScaledHeight \div 2)

\* C22: when a single drag tick starts a snap, the corner it chooses is one
\* of the four corners, it is the corner of the viewport quarter that holds
\* the element's center (so equal centers give equal corners), and the snap
\* target is that corner's position one dock margin inside the viewport; a
\* center at (10, 10) gives the top left corner.
C22_SnapCornerOfCenter ==
  [][(/\ tasks_ = <<DragTask("b")>>
      /\ entry["b"].snapTarget.null
      /\ ~entry'["b"].snapTarget.null)
     => LET e == entry'["b"]
            c == DragCenter(e)
            corner == e.minimizePosition_
        IN /\ corner \in {"top_left", "top_right", "bottom_left", "bottom_right"}
           /\ corner = QuadrantCorner(c.x, c.y)
           /\ e.snapTarget.x =
                IF corner \in {"top_left", "bottom_left"} THEN DOCK_MARGIN
                ELSE ViewportWidth - ScaledWidth - DOCK_MARGIN
           /\ e.snapTarget.y =
                IF corner \in {"top_left", "top_right"} THEN DOCK_MARGIN
                ELSE ViewportHeight - ScaledHeight - DOCK_MARGIN
           /\ (c = Pt(10, 10) => corner = "top_left")]_vars

\* The element was let go at rest with its center at (10, 10) and the next
\* tick snapped it to the top left corner.
C22_Witness ==
  /\ DragCenter(entry["b"]) = Pt(10, 10)
  /\ entry["b"].minimizePosition_ = "top_left"
  /\ ~entry["b"].snapTarget.null
  /\ entry["b"].snapTarget.x = DOCK_MARGIN
  /\ entry["b"].snapTarget.y = DOCK_MARGIN
  /\ entry["b"].isSnapping_

RECURSIVE FrictionTimes(_, _)
\* A velocity component after k free-motion ticks
FrictionTimes(n, k) == IF k = 0 THEN n ELSE FrictionTimes(Friction(n), k - 1)

\* The square of a velocity's magnitude
SpeedSq(vel) == vel.x * vel.x + vel.y * vel.y

\* C23: a frame that runs one drag tick on a draggable entry that is not being
\* dragged multiplies both velocity components by FRICTION_COEFF, which lies
\* strictly between 0 and 1: no component grows, a velocity that is not zero
\* gets strictly smaller in magnitude, and a bounded number of such ticks
\* (24, enough for any speed below a million pixels a tick) brings both components
\* within STOP_THRESHOLD.
C23_FrictionSlowsDown ==
  [][(/\ tasks_ = <<DragTask("b")>>
      /\ DragGuard(entry["b"])
      /\ ~entry["b"].isDragging_
      /\ Frame(TRUE, FALSE))
     => LET old == entry["b"].dragCoordinates_.velocity
            new == entry'["b"].dragCoordinates_.velocity
        IN /\ 0 < FRICTION_COEFF /\ FRICTION_COEFF < 100
           /\ new = Pt(Friction(old.x), Friction(old.y))
           /\ Abs(new.x) <= Abs(old.x) /\ Abs(new.y) <= Abs(old.y)
           /\ old # Pt(0, 0) => SpeedSq(new) < SpeedSq(old)
           /\ Abs(FrictionTimes(old.x, 24)) <= STOP_THRESHOLD
           /\ Abs(FrictionTimes(old.y, 24)) <= STOP_THRESHOLD]_vars

\* The element was let go while moving up and to the left: the first free
\* tick has moved it on by its velocity and slowed it down.
C23_Witness ==
  /\ ~entry["b"].isDragging_
  /\ entry["b"].dockingState_ = "docked"
  /\ entry["b"].dragCoordinates_.position = Pt(-760, -120)
  /\ entry["b"].dragCoordinates_.velocity = Pt(-357, -38)

\* C24: the manager's docked slot changes only in a step of the scheduler's
\* frame (a mutate callback), and only together with a dockingState_ write to
\* DOCKING (initializeDocking_) or to INLINE (finishDocking_).
C24_SlotWrittenInMutate ==
  [][dockedVideo_' # dockedVideo_
     => /\ Frame(TRUE, FALSE)
        /\ \E i \in 1..Len(last'.writes) :
             last'.writes[i][3] \in {"docking", "inline"}]_vars

\* The controls can be seen: not hidden by class and fully opaque
ControlsVisible(c) == ~c.hiddenClass /\ c.opacity = 100

\* C25: while the controls are disabled, every step other than
\* enableControls() leaves controlsDisabled_ true and does not make the
\* controls visible, whatever animations are running.
C25_DisabledUntilEnabled ==
  [][(controls.controlsDisabled_ /\ ~EnableControls)
     => /\ controls'.controlsDisabled_
        /\ ControlsVisible(controls') => ControlsVisible(controls)]_vars

\* The listener that handle h added, as the element holds it
ListenerOf(h) ==
  [eventType |-> target.closure[h].eventType, wrapped |-> h,
   capture |-> target.closure[h].options.capture]

\* C26: the first call of an unlisten function takes exactly the listener it
\* added off the element (found by the capture/options value it was added
\* with) and leaves every other listener; from then on its listener never runs
\* again; and a further call removes nothing and changes nothing.
C26_UnlistenRemovesItsOwn ==
  [][\A h \in Handles :
       /\ (Unlisten(h) /\ target.closure[h].localElement)
            => /\ ListenerOf(h) \in target.listeners
               /\ target'.listeners = target.listeners \ {ListenerOf(h)}
               /\ target'.removed = {ListenerOf(h)}
       /\ (target.closure[h].made /\ ~target.closure[h].localElement)
            => /\ target'.invoked[h] = target.invoked[h]
               /\ \A l \in target'.listeners : l.wrapped # h
               /\ Unlisten(h) => /\ target'.listeners = target.listeners
                                  /\ target'.removed = {}
                                  /\ target'.closure = target.closure]_vars

\* A capturing listener ran once and was taken off while another handle's
\* listener for the same event stays on the element.
C26_Witness ==
  /\ target.closure["h1"].made /\ ~target.closure["h1"].localElement
  /\ target.closure["h1"].options.capture
  /\ target.invoked["h1"] = 1
  /\ target.removed = {ListenerOf("h1")}
  /\ target.listeners = {ListenerOf("h2")}
  /\ target.closure["h2"].eventType = target.closure["h1"].eventType

EnteredDocking(v) ==
  \E i \in 1..Len(last.writes) : last.writes[i] = <<v, "inline", "docking">>

\* C29: a step that moves the entry from INLINE to DOCKING starts from an
\* entry whose playing state is PLAYING_MANUAL, or PAUSED with the dock class
\* on its element; an entry in PLAYING_AUTO does not leave INLINE.
C29_DocksOnlyManual ==
  [][/\ EnteredDocking("a")'
        => \/ getPlayingState(entry["a"]) = "playing_manual"
           \/ getPlayingState(entry["a"]) = "paused" /\ entry["a"].dockClass
     /\ (getPlayingState(entry["a"]) = "playing_auto" /\ entry["a"].dockingState_ = "inline")
        => entry'["a"].dockingState_ = "inline"]_vars

\* The tapped autoplay video, playing by hand, has just started docking.
C29_Witness ==
  /\ EnteredDocking("a")
  /\ entry["a"].dockingState_ # "inline"
  /\ entry["a"].playCalledByAutoplay_ /\ entry["a"].userInteractedWithAutoPlay_
  /\ getPlayingState(entry["a"]) = "playing_manual"

\* C30: a step that moves an entry from INLINE to DOCKING starts from an entry
\* whose hasBeenInViewBefore is true.
C30_DocksOnlyAfterSeen ==
  [][\A v \in DockVideos :
       EnteredDocking(v)' => entry[v].hasBeenInViewBefore /\ entry'[v].hasBeenInViewBefore]_vars

\* The video, seen in view before, has just started docking.
C30_Witness ==
  /\ EnteredDocking("b")
  /\ entry["b"].hasBeenInViewBefore
  /\ entry["b"].dockingState_ # "inline"

\* The last position entry v was handed lies on side rel
LastSide(v, rel) ==
  ~entry[v].lastPosition_.null /\ entry[v].lastPosition_.relativePos = rel

NoPlayback(calls) == \A i \in 1..Len(calls) : calls[i] \notin {"play(true)", "pause"}

C32_NoAutoplayAfterInteraction ==
  [][entry["a"].userInteractedWithAutoPlay_
     => /\ entry'["a"].userInteractedWithAutoPlay_
        /\ NoPlayback(last'.calls)]_vars

\* The user has tapped the video, its visibility has changed since and the
\* continuation of that change is the next to run, autoplay being supported.
C32_Witness ==
  /\ entry["a"].userInteractedWithAutoPlay_
  /\ entry["a"].hasAutoplay
  /\ entry["a"].loaded_
  /\ micro # <<>>
  /\ Head(micro) = VisibilityContinuation

\* C33: a frame that runs the resize task of a dockable entry leaves
\* initialRect_ re-measured and writes dockingState_ INLINE; with a last
\* position known the same step re-evaluates it, so that when the frame ends
\* an entry that is still eligible (loaded, out of view with a corner, seen in
\* view before, playing manually or paused with the dock class, and allowed
\* the slot) is DOCKING or DOCKED, and any other entry is INLINE without the
\* dock class, without inline styles and not in the docked slot.
HasResizeTask(v) == \E i \in 1..Len(tasks_) : tasks_[i] = ResizeTask(v)

StillEligible(v) ==
  LET e == entry[v]
  IN /\ e.loaded_ /\ ~e.initialRect_.null /\ e.internalElement_
     /\ e.minimizePosition_ # "inline" /\ e.hasBeenInViewBefore
     /\ \/ getPlayingState(e) = "playing_manual"
        \/ getPlayingState(e) = "paused" /\ e.dockClass
     /\ canDock(World, v)

RestoredInline(v) ==
  /\ entry[v].dockingState_ = "inline"
  /\ ~entry[v].dockClass
  /\ entry[v].style = {}
  /\ dockedVideo_ # v

C33_ResizeReevaluates ==
  [][\A v \in TwoVideos :
       (Frame(TRUE, FALSE) /\ HasResizeTask(v))
       => /\ entry'[v].initialRect_ = BoundingClientRect(v)
          /\ \E i \in 1..Len(last'.writes) :
                last'.writes[i][1] = v /\ last'.writes[i][3] = "inline"
          /\ entry[v].lastPosition_.null => RestoredInline(v)'
          /\ ~entry[v].lastPosition_.null
             => IF StillEligible(v)'
                THEN entry'[v].dockingState_ \in {"docking", "docked"}
                ELSE RestoredInline(v)']_vars

\* The resize step has taken a docked video to INLINE and, its last position
\* still out of view, docked it again at once.
C33_Witness ==
  /\ Len(last.writes) >= 3
  /\ last.writes[1] = <<"b", "docked", "inline">>
  /\ last.writes[2] = <<"b", "inline", "docking">>
  /\ entry["b"].dockingState_ = "docked"
  /\ dockedVideo_ = "b"

\* C34: a position event that finds the corner INLINE and reports the video
\* out of the viewport sets the corner to TOP_* when the video is above the
\* viewport and BOTTOM_* when below, *_RIGHT on an LTR page and *_LEFT on an
\* RTL page; a position event out of view that finds a corner keeps it, one
\* inside resets it to INLINE, and every other change of the corner is made
\* by a drag tick that starts a snap.
CornerFor(rel, dir) ==
  IF rel = "top" THEN (IF dir = "ltr" THEN "top_right" ELSE "top_left")
  ELSE (IF dir = "ltr" THEN "bottom_right" ELSE "bottom_left")

\* The corner a position event leaves in an entry that has room to dock
CornerAfter(e, rel) ==
  IF rel = "inside" THEN "inline"
  ELSE IF e.minimizePosition_ = "inline" THEN CornerFor(rel, e.pageDir_)
  ELSE e.minimizePosition_

\* A drag tick of the docked, released video has taken the corner from the
\* place the video was dragged to (calcSnapCorner_)
SnappedToCorner(v) ==
  /\ entry'[v].dockingState_ = "docked"
  /\ ~entry'[v].isDragging_
  /\ entry'[v].minimizePosition_ =
       QuadrantCorner(DragCenter(entry'[v]).x, DragCenter(entry'[v]).y)

FallbackRect(e, rel) ==
  layoutRectLtwh(e.initialRect_.left,
                 IF rel = "bottom" THEN ViewportHeight ELSE -e.initialRect_.height,
                 e.initialRect_.width, e.initialRect_.height)

C35_NoRectangleHandled ==
  [][\A v \in DockVideos :
       (\E p \in PosInputs : p.positionRect.null /\ PositionChanged(v, p))
       => /\ ~last'.thrown
          /\ entry'[v].visibleHeight_ = 0
          /\ entry'[v].lastPosition_.positionRect
               = FallbackRect(entry[v], entry'[v].lastPosition_.relativePos)]_vars

\* C36: while isSnapping_ is true every step but the end of the animation
\* leaves isSnapping_ true and the animation's target as it is (no second
\* snap is started), and the transform of the element is written only by the
\* docking animation of a position event, never from the drag position; a
\* step that starts a snap takes the coordinates of the corner it has chosen
\* as the target, and when the animation ends isSnapping_ is false and the
\* drag position is that target.
C36_SnapNotReentered ==
  [][LET e == entry["b"]
         f == entry'["b"]
     IN /\ (e.isSnapping_ /\ ~SnapDone("b"))
           => /\ f.isSnapping_
              /\ f.snapTarget = e.snapTarget
              /\ f.transformAt # e.transformAt => \E p \in DragPos : PositionChanged("b", p)
        /\ (~e.isSnapping_ /\ f.isSnapping_ /\ ~last'.thrown)
           => /\ ~f.snapTarget.null
              /\ Pt(f.snapTarget.x, f.snapTarget.y)
                   = CornerPos(f.minimizePosition_, f.dragCoordinates_.position)
              /\ Pt(f.snapTarget.x, f.snapTarget.y) # f.dragCoordinates_.position
        /\ (e.isSnapping_ /\ SnapDone("b"))
           => /\ ~f.isSnapping_
              /\ f.snapTarget.null
              /\ f.dragCoordinates_.position = Pt(e.snapTarget.x, e.snapTarget.y)]_vars

\* A snap has ended: the video, dragged and let go, rests at the bottom left
\* corner it was taken to.
C36_Witness ==
  /\ ~entry["b"].isSnapping_
  /\ entry["b"].snapTarget.null
  /\ entry["b"].touches > 0
  /\ entry["b"].dockingState_ = "docked"
  /\ entry["b"].minimizePosition_ = "bottom_left"
  /\ entry["b"].dragCoordinates_.position = CornerPos("bottom_left", Pt(0, 0))

\* C37: dragCoordinates_.displacement changes only in a mousedown/touchstart
\* on the mask, which leaves it equal to the offset of the pointer from the
\* drag position (so that pointer - displacement is the position, and a
\* dragging tick without pointer movement leaves the position where it is);
\* a frame with one tick of a dragged video sets the position to
\* pointer - displacement and the velocity to the new position less the old.
GrabbedHere(v) ==
  \E at \in MaskAt(entry[v]), off \in SnapOffsets : MouseDown(v, at, off)

DraggingTick(v) ==
  /\ Frame(TRUE, FALSE)
  /\ Len(SelectSeq(tasks_, LAMBDA t : t = DragTask(v))) = 1
  /\ entry[v].isDragging_
  /\ entry[v].dockingState_ = "docked" /\ entry[v].dockClass
  /\ entry[v].visibleHeight_ = 0

C37_DisplacementFixedAtTouchStart ==
  [][LET d == entry["b"].dragCoordinates_
         n == entry'["b"].dragCoordinates_
     IN /\ n.displacement # d.displacement => GrabbedHere("b")
        /\ GrabbedHere("b")
           => Pt(n.mouse.x - n.displacement.x, n.mouse.y - n.displacement.y) = n.position
        /\ DraggingTick("b")
           => /\ n.position = Pt(d.mouse.x - d.displacement.x, d.mouse.y - d.displacement.y)
              /\ n.velocity = Pt(n.position.x - d.position.x, n.position.y - d.position.y)]_vars

\* C38: after every step (event handler, frame or continuation) the docked
\* slot names an entry exactly when the dockingState_ of that entry is not
\* INLINE, and a slot that named an entry before the step and does not name
\* it after has been released by a write of INLINE to that entry's own
\* dockingState_ in the step: no handler of another entry clears or takes it.
C38_SlotIffNotInline ==
  [][\A e \in TwoVideos :
       /\ dockedVideo_' = e <=> entry'[e].dockingState_ # "inline"
       /\ (dockedVideo_ = e /\ dockedVideo_' # e)
          => /\ dockedVideo_' = Null
             /\ \E i \in 1..Len(last'.writes) :
                   last'.writes[i][1] = e /\ last'.writes[i][3] = "inline"]_vars

\* One video holds the slot while the other, playing and out of view as
\* well, has had a position event and is still INLINE.
C38_Witness ==
  /\ dockedVideo_ = "b"
  /\ entry["b"].dockingState_ = "docked"
  /\ entry["c"].isPlaying_ /\ entry["c"].hasBeenInViewBefore
  /\ entry["c"].minimizePosition_ # "inline"
  /\ entry["c"].dockingState_ = "inline"

\* C39: the drag tick that dismisses a video (it calls pause() and takes the
\* entry from DOCKED to INLINE) leaves hasBeenInViewBefore false; while the
\* flag is false no step takes the entry from INLINE to DOCKING, whatever
\* position event arrives and whether or not the PAUSE event has been
\* delivered; and the flag becomes true again only in a step that finds the
\* whole height of the video in view.
Dismissed(v) ==
  /\ \E i \in 1..Len(last.calls) : last.calls[i] = "pause"
  /\ \E i \in 1..Len(last.writes) : last.writes[i] = <<v, "docked", "inline">>

C39_DismissedStaysInline ==
  [][LET e == entry["b"]
         f == entry'["b"]
     IN /\ Dismissed("b")' => (~f.hasBeenInViewBefore /\ f.dockingState_ = "inline")
        /\ ~e.hasBeenInViewBefore => ~EnteredDocking("b")'
        /\ (~e.hasBeenInViewBefore /\ f.hasBeenInViewBefore)
           => /\ f.visibleHeight_ = f.initialRect_.height
              /\ f.dockingState_ = "inline"]_vars

\* The video was dismissed, pause() has been called and PAUSE is not yet
\* delivered: it still counts as playing, a position event has since found it
\* out of view, and it is INLINE.
C39_Witness ==
  /\ entry["b"].pausePending /\ entry["b"].isPlaying_
  /\ "b" \in delivered
  /\ ~entry["b"].hasBeenInViewBefore
  /\ entry["b"].visibleHeight_ = 0
  /\ entry["b"].minimizePosition_ # "inline"
  /\ entry["b"].dockingState_ = "inline"

\* C40: nothing asks to hide the controls after showControls() was called
\* with the controls enabled (SpecShow); once its mutate callback has run
\* (the hide timer is set), no callback is queued and no animation is running,
\* controlsShown_ is true and the hidden class is absent, even though a
\* fade-out was running when showControls() was called.
C40_ShowWinsOverFadeOut ==
  (/\ ~controls.controlsDisabled_
   /\ controls.controlsTimer_
   /\ controls.mutates = <<>>
   /\ controls.showing = 0
   /\ controls.hiding = 0)
  => (controls.controlsShown_ /\ ~controls.hiddenClass)

====
